---- MODULE Spec2Model ----
(***************************************************************************)
(* Verification model of fireatwillshakespeare.                            *)
(*                                                                         *)
(*   Spec        the GptConversation session and the retry loop of         *)
(*               _gpt_submit (src/_gpt_helpers.py)                         *)
(*   SpecDecode  the reply decoding of _gpt_submit (strip + raw_decode)    *)
(*               applied to every reply text up to MaxTextLen              *)
(*   SpecBoard   the Board operations (src/models/board.py)                *)
(*   SpecShield  the Board operations together with the shield overlay     *)
(*   SpecTurn    the game loop of main() (src/main.py) with the agents     *)
(*   SpecCoord   Coordinates.from_string and __repr__                      *)
(*   SpecSchema  JSONSchemaFormat and the head of _gpt_submit              *)
(*   SpecAgents  the sessions of Enemy, Ally and SpoofChecker over the     *)
(*               turns of main() (src/agents)                              *)
(*                                                                         *)
(* Text is a sequence of one-character strings; the marker prefix          *)
(* "DATETIME:" is one symbol of that alphabet.                             *)
(***************************************************************************)
EXTENDS Integers, Sequences, FiniteSets, TLC

VARIABLES
    \* ---- GptConversation (a list subclass) -----------------------------
    SYSTEM_ANNOUNCEMENT_MESSAGE,  \* the module global of that name
    openai_client,  \* self.openai_client: "None" or "client"
    convo,          \* the list content of the GptConversation (the messages)
    last_reply,     \* self.last_reply
    \* ---- one call of submit / _gpt_submit ------------------------------
    pc,             \* "idle", "attempt" (at openai_client.responses.create), "sleep" (in time.sleep)
    json_response,  \* the json_response argument of the running call
    snapshot,       \* the messages argument of _gpt_submit (self.to_dict_list())
    messages,       \* the local list `messages` of _gpt_submit: what responses.create receives
    iretry,         \* the loop variable of the retry loop
    efail,          \* the local efail of _gpt_submit
    llmresponse,    \* the last response object the service returned
    outcome,        \* how the last call of submit ended (returned value / raised error)
    dispatches,     \* number of responses.create calls the call has made
    op,             \* the last session operation called and its arguments (for
                    \* submit: self as it was at the call)
    \* ---- reply decoding (SpecDecode) -----------------------------------
    output_text,    \* llmresponse.output_text under decoding
    decoded,        \* the result of the try-body on output_text
    \* ---- Board (SpecBoard) ---------------------------------------------
    grid,           \* Board.grid
    ships,          \* Board.ships
    hostages,       \* Board.hostages
    call,           \* the last Board operation called and its arguments
    ret,            \* what that operation returned
    \* ---- the Board main() plays on (SpecShield) -------------------------
    chaff,          \* the shield overlay: the set of cells shielded this turn
    \* ---- main(), the game loop (SpecTurn) ------------------------------
    phase,              \* where main() stands
    is_injection_turn,  \* the local of that name
    fire_coordinates,   \* the local of that name
    turn_calls,         \* the Board operations called in the current loop iteration, in order
    swept,              \* the shielded cells the last start_turn cleared
    lore_context,       \* ally.lore_context: what setup stored
    verdict,            \* the firing decision the ally's session replied in this turn
    fault,              \* the last exception an agent call raised in this turn
    turns_started,      \* how many loop iterations have begun
    _event_history,     \* enemy._event_history
    \* ---- Coordinates.from_string and __repr__ (SpecCoord) --------------
    origin,         \* what the run starts from: "text" or "coordinates"
    value,          \* the str given to from_string
    parsed,         \* what from_string did with it
    coordinates,    \* the Coordinates object given to __repr__
    shown,          \* the str __repr__ returned
    \* ---- JSONSchemaFormat and the head of _gpt_submit (SpecSchema) -----
    schema,         \* the heuristic schema its caller holds
    name_arg,       \* the name argument
    description,    \* the description argument
    formats,        \* the objects JSONSchemaFormat returned, as their caller holds them now
    convresult,     \* the local convresult of the last JSONSchemaFormat call, before the wrap
    raised,         \* the exception that call raised, or "None"
    openai_text_param,  \* the local of that name in the last _gpt_submit call
    \* ---- the sessions of the agents (SpecAgents) ------------------------
    targeting_instructions,  \* the local of that name in main()
    ally_convo,     \* the local convo of the last Ally.receive_targeting_instructions
    _convo,         \* enemy._convo
    executor,       \* the three tasks of SpoofChecker.receive_targeting_instructions:
                    \* where each stands, its local convo, what it returned
    completed,      \* those tasks in the order in which they finished
    spoof_analysis  \* what SpoofChecker.receive_targeting_instructions returned

sessVars == <<SYSTEM_ANNOUNCEMENT_MESSAGE, openai_client, convo, last_reply, pc,
               json_response, snapshot, messages, iretry, efail, llmresponse, outcome,
               dispatches, op>>
decVars == <<output_text, decoded>>
boardVars == <<grid, ships, hostages, call, ret>>
shieldVars == <<chaff>>
turnVars == <<phase, is_injection_turn, fire_coordinates, turn_calls, swept,
               lore_context, verdict, fault, turns_started, _event_history>>
coordVars == <<origin, value, parsed, coordinates, shown>>
schemaVars == <<schema, name_arg, description, formats, convresult, raised, openai_text_param>>
agentVars == <<targeting_instructions, ally_convo, _convo, executor, completed, spoof_analysis>>
vars == <<sessVars, decVars, boardVars, shieldVars, turnVars, coordVars, schemaVars,
          agentVars>>

\* what an operation of one part leaves alone: the variables of the other parts
notSessVars == <<decVars, boardVars, shieldVars, turnVars, coordVars, schemaVars, agentVars>>
notDecVars == <<sessVars, boardVars, shieldVars, turnVars, coordVars, schemaVars, agentVars>>
notBoardVars == <<sessVars, decVars, shieldVars, turnVars, coordVars, schemaVars, agentVars>>
notShieldVars == <<sessVars, decVars, turnVars, coordVars, schemaVars, agentVars>>
notTurnVars == <<sessVars, decVars, coordVars, schemaVars, agentVars>>
notCoordVars == <<sessVars, decVars, boardVars, shieldVars, turnVars, schemaVars, agentVars>>
notSchemaVars == <<sessVars, decVars, boardVars, shieldVars, turnVars, coordVars, agentVars>>
notAgentVars == <<sessVars, decVars, boardVars, shieldVars, coordVars, schemaVars>>

----------------------------------------------------------------------------
(* Program constants *)

\* the cols argument of Board(rows, cols); the rows are a bound
BoardCols == 1

GPT_RETRY_LIMIT == 5

\* SYSTEM_ANNOUNCEMENT_MESSAGE is "" in the source; the configured values
\* explored are the empty one, a blank one and a non-blank one.
Announcements == { <<>>, <<" ">>, <<" ", "N", " ">> }

Roles == {"system", "developer", "user", "assistant"}

----------------------------------------------------------------------------
(* Bounds *)

MaxMsgs == 2     \* longest conversation explored
MaxTextLen == 4     \* longest reply text explored by SpecDecode
BoardRows == 3     \* rows of the board explored
MaxCoordLen == 4     \* longest coordinate text explored by SpecCoord
MaxRow == 10     \* largest row of a Coordinates object explored by SpecCoord
MaxTupleLen == 2     \* longest tuple of a heuristic schema explored by SpecSchema
MaxFormats == 2     \* most JSONSchemaFormat calls of one run of SpecSchema
MaxTurns == 2     \* most loop iterations of main() explored by SpecTurn
MaxReplayTurns == 3     \* most loop iterations of main() explored by SpecAgents

----------------------------------------------------------------------------
(* Text helpers *)

Whitespace == {" "}

RECURSIVE lstrip(_)
lstrip(s) == IF s # <<>> /\ Head(s) \in Whitespace THEN lstrip(Tail(s)) ELSE s

RECURSIVE rstrip(_)
rstrip(s) ==
    IF s # <<>> /\ s[Len(s)] \in Whitespace THEN rstrip(SubSeq(s, 1, Len(s) - 1)) ELSE s

\* str.strip()
strip(s) == rstrip(lstrip(s))

\* str.startswith("DATETIME:")
startswith_DATETIME(s) == s # <<>> /\ Head(s) = "DATETIME:"

IsPrefix(s, t) == Len(s) <= Len(t) /\ SubSeq(t, 1, Len(s)) = s

----------------------------------------------------------------------------
(* JSON values and json.JSONDecoder().raw_decode                            *)
(*                                                                         *)
(* A decoded value is a record: a number [t = "num", n], a list            *)
(* [t = "arr", items] or a dict [t = "obj"].  The reply alphabet has no    *)
(* double quote, so the only dict a reply can spell is the empty one.      *)

Digits == <<"0", "1", "2", "3", "4", "5", "6", "7", "8", "9">>

IsDigit(c) == \E d \in 1..10 : Digits[d] = c

DigitVal(c) == (CHOOSE d \in 1..10 : Digits[d] = c) - 1

NoneObj == [t |-> "none", n |-> 0, items |-> <<>>]

Num(k) == [t |-> "num", n |-> k, items |-> <<>>]

Arr(vs) == [t |-> "arr", n |-> 0, items |-> vs]

EmptyDict == [t |-> "obj", n |-> 0, items |-> <<>>]

\* what the scanner signals by StopIteration / JSONDecodeError
ScanFail == [ok |-> FALSE, obj |-> NoneObj, end |-> 0]

ScanOk(v, e) == [ok |-> TRUE, obj |-> v, end |-> e]

\* s[i:i+1], positions counted from 1
CharAt(s, i) == IF i >= 1 /\ i <= Len(s) THEN s[i] ELSE ""

\* WHITESPACE.match(s, i).end()
RECURSIVE SkipWs(_, _)
SkipWs(s, i) == IF CharAt(s, i) \in Whitespace THEN SkipWs(s, i + 1) ELSE i

\* end of the longest run of digits starting at i
RECURSIVE DigitsEnd(_, _)
DigitsEnd(s, i) == IF IsDigit(CharAt(s, i)) THEN DigitsEnd(s, i + 1) ELSE i

\* int(s[i:e])
RECURSIVE IntOf(_, _, _)
IntOf(s, i, e) == IF i >= e THEN 0 ELSE IntOf(s, i, e - 1) * 10 + DigitVal(s[e - 1])

\* NUMBER_RE = (-?(?:0|[1-9][0-9]*))...: a lone 0, or a run of digits not starting with 0
match_number(s, idx) ==
    IF CharAt(s, idx) = "0"
    THEN ScanOk(Num(0), idx + 1)
    ELSE ScanOk(Num(IntOf(s, idx, DigitsEnd(s, idx))), DigitsEnd(s, idx))

\* JSONObject, entered after the opening brace
JSONObject(s, end) ==
    IF CharAt(s, SkipWs(s, end)) = "}" THEN ScanOk(EmptyDict, SkipWs(s, end) + 1)
    ELSE ScanFail   \* "Expecting property name enclosed in double quotes"

RECURSIVE scan_once(_, _)
RECURSIVE JSONArrayLoop(_, _, _)

\* the while-loop of JSONArray: one value, then "]" or a comma
JSONArrayLoop(s, end, values) ==
    LET r  == scan_once(s, end)
        e1 == SkipWs(s, r.end)
    IN  IF ~r.ok THEN ScanFail                     \* "Expecting value"
        ELSE IF CharAt(s, e1) = "]" THEN ScanOk(Arr(Append(values, r.obj)), e1 + 1)
        ELSE IF CharAt(s, e1) # "," THEN ScanFail  \* "Expecting ',' delimiter"
        ELSE JSONArrayLoop(s, SkipWs(s, e1 + 1), Append(values, r.obj))

\* JSONArray, entered after the opening bracket
JSONArray(s, end) ==
    IF CharAt(s, SkipWs(s, end)) = "]" THEN ScanOk(Arr(<<>>), SkipWs(s, end) + 1)
    ELSE JSONArrayLoop(s, SkipWs(s, end), <<>>)

scan_once(s, idx) ==
    LET nextchar == CharAt(s, idx)
    IN  IF nextchar = "{" THEN JSONObject(s, idx + 1)
        ELSE IF nextchar = "[" THEN JSONArray(s, idx + 1)
        ELSE IF IsDigit(nextchar) THEN match_number(s, idx)
        ELSE ScanFail

\* json.loads in place of raw_decode: trailing text is an error ("Extra data")
raw_decode_loads(s) ==
    IF scan_once(s, 1).ok /\ SkipWs(s, scan_once(s, 1).end) = Len(s) + 1
    THEN scan_once(s, 1) ELSE ScanFail

\* json.JSONDecoder().raw_decode(s): the first value and where it ends;
\* ok = FALSE stands for json.JSONDecodeError
raw_decode(s) == scan_once(s, 1)

----------------------------------------------------------------------------
(* Python values that travel through submit: None, a str or a decoded value *)

PyNone == [type |-> "NoneType", text |-> <<>>, obj |-> NoneObj]

PyText(s) == [type |-> "str", text |-> s, obj |-> NoneObj]

PyObj(v) == [type |-> "json", text |-> <<>>, obj |-> v]

\* str(n) for n >= 0
RECURSIVE IntStr(_)
IntStr(n) == IF n < 10 THEN <<Digits[n + 1]>> ELSE IntStr(n \div 10) \o <<Digits[(n % 10) + 1]>>

\* str(v) of a decoded value: Python's repr, list items joined by ", "
RECURSIVE PyStr(_)
RECURSIVE PyJoin(_)
PyJoin(vs) ==
    IF vs = <<>> THEN <<>>
    ELSE IF Len(vs) = 1 THEN PyStr(vs[1])
    ELSE PyStr(vs[1]) \o <<",", " ">> \o PyJoin(Tail(vs))

PyStr(v) ==
    IF v.t = "num" THEN IntStr(v.n)
    ELSE IF v.t = "arr" THEN <<"[">> \o PyJoin(v.items) \o <<"]">>
    ELSE <<"{", "}">>

\* json.dumps(d, indent=2) of a dict; the empty dict is the only one here
json_dumps_indent2(v) == <<"{", "}">>

----------------------------------------------------------------------------
(* Messages and the message list handed to the service *)

Msg(role, content) == [role |-> role, content |-> content]

\* content used as it is, without the conversion to str
ContentStrUnconverted(content) == content.text

\* add_message turns content that is not a str into one:
\* json.dumps(content, indent=2) for a dict, str(content) otherwise
ContentStr(content) ==
    IF content.type = "str" THEN content.text
    ELSE IF content.type = "NoneType" THEN <<"N", "o", "n", "e">>
    ELSE IF content.obj.t = "obj" THEN json_dumps_indent2(content.obj)
    ELSE PyStr(content.obj)

\* self.insert(0, ...) in place of self.append(...)
add_message_at_head(list, role, content) == <<Msg(role, ContentStr(content))>> \o list

\* GptConversation.add_message: self.append({"role": role, "content": content})
add_message(list, role, content) == Append(list, Msg(role, ContentStr(content)))

add_assistant_message(list, content) == add_message(list, "assistant", content)

\* current_datetime_system_message(), now being the formatted clock reading
current_datetime_system_message(now) == Msg("system", <<"DATETIME:", now>>)

\* the condition of the list comprehension at the top of _gpt_submit
IsDatetimeMessage(m) == m.role = "system" /\ startswith_DATETIME(m.content)

\* the datetime messages left in place
ClearDatetimeNothing(msgs) == msgs

ClearDatetime(msgs) == SelectSeq(msgs, LAMBDA m : ~IsDatetimeMessage(m))

\* the message list _gpt_submit builds before the retry loop
PrepareMessages(msgs, now, announcement) ==
    LET dated == <<current_datetime_system_message(now)>> \o ClearDatetime(msgs)
    IN  IF announcement # <<>> /\ strip(announcement) # <<>>
        THEN <<Msg("system", strip(announcement))>> \o dated
        ELSE dated

----------------------------------------------------------------------------
(* The retry loop of _gpt_submit *)

\* `if json_response:` -- None and False are falsy, True and a schema dict truthy
Truthy(jr) == jr \in {"True", "dict"}

NoError == [type |-> "None", attempt |-> 0]

\* the failure caught in attempt number `attempt` (1-based, as printed)
Failure(type, attempt) == [type |-> type, attempt |-> attempt]

\* ValueError("Unknown error occurred in _gpt_helpers")
UnknownError == [type |-> "ValueError:unknown", attempt |-> 0]

\* ValueError("OpenAI client is not set. ...")
ClientError == [type |-> "ValueError:client", attempt |-> 0]

\* range(GPT_RETRY_LIMIT + 1): one iteration too many
LoopContinuesOneMore(i) == i <= GPT_RETRY_LIMIT

\* for iretry in range(GPT_RETRY_LIMIT)
LoopContinues(i) == i < GPT_RETRY_LIMIT

\* efail kept from the first failure: `efail = efail or e`
CatchFirst(ef, e) == IF ef.type = "None" THEN e ELSE ef

\* `efail = e` in both except clauses
Catch(ef, e) == e

\* the statements after the loop: raise efail if there is one, else the generic error
AfterLoop(ef) == IF ef.type # "None" THEN ef ELSE UnknownError

\* the reply text returned undecoded on the structured path
TryBodyUndecoded(jr, rsp) ==
    LET llmreply == strip(rsp.output_text)
    IN  IF ~Truthy(jr) \/ raw_decode(llmreply).ok
        THEN [kind |-> "return", value |-> PyText(llmreply)]
        ELSE [kind |-> "JSONDecodeError", value |-> PyNone]

\* the try-body once responses.create has returned rsp: the value returned,
\* or the JSONDecodeError of raw_decode
TryBody(jr, rsp) ==
    LET llmreply == strip(rsp.output_text)
    IN  IF ~Truthy(jr) THEN [kind |-> "return", value |-> PyText(llmreply)]
        ELSE IF raw_decode(llmreply).ok
             THEN [kind |-> "return", value |-> PyObj(raw_decode(llmreply).obj)]
             ELSE [kind |-> "JSONDecodeError", value |-> PyNone]

NoResponse == [status |-> "none", error |-> FALSE, incomplete |-> FALSE, output_text |-> <<>>]

Response(e, i, t) == [status |-> "received", error |-> e, incomplete |-> i, output_text |-> t]

NoOutcome == [kind |-> "none", value |-> PyNone, error |-> NoError]

Returned(v) == [kind |-> "returned", value |-> v, error |-> NoError]

Raised(e) == [kind |-> "raised", value |-> PyNone, error |-> e]

----------------------------------------------------------------------------
(* Inputs *)

\* reply texts the service produces in Spec
SampleTexts ==
    { <<"]">>,                                            \* no JSON value
      <<" ", "[", "1", ",", "1", "]", "[", "]", " ">>,    \* two concatenated lists, padded
      <<"{", "}">> }                                      \* a dict

Times == {"t2"}

InputRoles == {"system", "user"}

InputContents == { <<"h">>, <<"DATETIME:", "t1">> }

JsonResponses == {"None", "dict"}

AssignLists ==
    { <<>>,
      <<Msg("user", <<"h">>), Msg("system", <<"DATETIME:", "t1">>)>> }

NoOp == [name |-> "none", arg |-> <<>>]

----------------------------------------------------------------------------
(* Session operations *)

InitSession ==
    /\ SYSTEM_ANNOUNCEMENT_MESSAGE \in Announcements
    /\ openai_client \in {"None", "client"}
    /\ convo = <<>>
    /\ last_reply = PyNone
    /\ pc = "idle"
    /\ json_response = "None"
    /\ snapshot = <<>>
    /\ messages = <<>>
    /\ iretry = 0
    /\ efail = NoError
    /\ llmresponse = NoResponse
    /\ outcome = NoOutcome
    /\ dispatches = 0
    /\ op = NoOp

\* no call of submit is running: its locals do not exist
NoFrame ==
    /\ json_response' = "None"
    /\ snapshot' = <<>>
    /\ messages' = <<>>
    /\ iretry' = 0
    /\ efail' = NoError
    /\ llmresponse' = NoResponse
    /\ dispatches' = 0

\* GptConversation.add_message and add_user_/add_system_/... _message
AddMessage(role, content) ==
    /\ pc = "idle"
    /\ Len(convo) < MaxMsgs
    /\ convo' = add_message(convo, role, PyText(content))
    /\ op' = [name |-> "add_message", arg |-> <<Msg(role, content)>>]
    /\ outcome' = NoOutcome
    /\ NoFrame
    /\ UNCHANGED <<SYSTEM_ANNOUNCEMENT_MESSAGE, openai_client, last_reply, pc>>
    /\ UNCHANGED notSessVars

\* GptConversation.assign_messages
AssignMessages(msgs) ==
    /\ pc = "idle"
    /\ convo' = IF msgs # <<>> THEN <<>> \o msgs ELSE <<>>
    /\ op' = [name |-> "assign_messages", arg |-> msgs]
    /\ outcome' = NoOutcome
    /\ NoFrame
    /\ UNCHANGED <<SYSTEM_ANNOUNCEMENT_MESSAGE, openai_client, last_reply, pc>>
    /\ UNCHANGED notSessVars

\* _gpt_submit(messages=list, json_response=jr) up to the head of its retry loop
Enter_gpt_submit(list, jr, now) ==
    /\ json_response' = jr
    /\ snapshot' = list
    /\ messages' = PrepareMessages(list, now, SYSTEM_ANNOUNCEMENT_MESSAGE)
    /\ iretry' = 0
    /\ efail' = NoError
    /\ llmresponse' = NoResponse
    /\ dispatches' = 0
    /\ IF LoopContinues(0)
       THEN pc' = "attempt" /\ outcome' = NoOutcome
       ELSE pc' = "idle" /\ outcome' = Raised(AfterLoop(NoError))

\* self at the call of a method: the list content and self.last_reply
SelfAtCall == [messages |-> convo, last_reply |-> last_reply]

\* GptConversation.submit(message, role, json_response=jr) up to the first
\* responses.create; message = <<>> stands for no message
Submit(message, role, jr, now) ==
    /\ pc = "idle"
    /\ Len(convo) + (IF message # <<>> THEN 2 ELSE 1) <= MaxMsgs
    /\ op' = [name |-> "submit", arg |-> SelfAtCall]
    /\ IF openai_client = "None"
       THEN /\ outcome' = Raised(ClientError)
            /\ NoFrame
            /\ UNCHANGED <<convo, pc>>
       ELSE /\ convo' = IF message # <<>>
                        THEN add_message(convo, role, PyText(message))
                        ELSE convo
            /\ Enter_gpt_submit(convo', jr, now)
    /\ UNCHANGED <<SYSTEM_ANNOUNCEMENT_MESSAGE, openai_client, last_reply>>
    /\ UNCHANGED notSessVars

\* GptConversation.submit_message and submit_user_/submit_system_/... _message:
\* add_message, then submit()
SubmitMessage(role, content, now) ==
    /\ pc = "idle"
    /\ Len(convo) + 2 <= MaxMsgs
    /\ op' = [name |-> "submit_message", arg |-> SelfAtCall]
    /\ convo' = add_message(convo, role, PyText(content))
    /\ IF openai_client = "None"
       THEN /\ outcome' = Raised(ClientError)
            /\ NoFrame
            /\ UNCHANGED pc
       ELSE Enter_gpt_submit(convo', "None", now)
    /\ UNCHANGED <<SYSTEM_ANNOUNCEMENT_MESSAGE, openai_client, last_reply>>
    /\ UNCHANGED notSessVars

\* leaving the loop body after a caught failure: the next iteration, or the
\* statements after the loop
Advance(ef) ==
    /\ iretry' = iretry + 1
    /\ IF LoopContinues(iretry + 1)
       THEN pc' = "attempt" /\ outcome' = outcome
       ELSE pc' = "idle" /\ outcome' = Raised(AfterLoop(ef))

\* time.sleep in both except clauses
HandlerSleepsAlways(type) == TRUE

\* whether the except clause for a failure of this type calls time.sleep
HandlerSleeps(type) == type = "OpenAIError"

\* an except clause: efail = e, then the sleep, or straight to the end of the body
Handle(e) ==
    /\ efail' = Catch(efail, e)
    /\ IF HandlerSleeps(e.type)
       THEN pc' = "sleep" /\ UNCHANGED <<iretry, outcome>>
       ELSE Advance(efail')

\* one responses.create that raises openai.OpenAIError
AttemptFails ==
    /\ pc = "attempt"
    /\ dispatches' = dispatches + 1
    /\ Handle(Failure("OpenAIError", iretry + 1))
    /\ UNCHANGED <<SYSTEM_ANNOUNCEMENT_MESSAGE, openai_client, convo, last_reply,
                   json_response, snapshot, messages, llmresponse, op>>
    /\ UNCHANGED notSessVars

\* time.sleep(GPT_RETRY_BACKOFF_TIME_SECONDS), then the end of the loop body
Backoff ==
    /\ pc = "sleep"
    /\ Advance(efail)
    /\ UNCHANGED <<SYSTEM_ANNOUNCEMENT_MESSAGE, openai_client, convo, last_reply,
                   json_response, snapshot, messages, efail, llmresponse, dispatches, op>>
    /\ UNCHANGED notSessVars

\* one responses.create that returns rsp, and the rest of the loop body;
\* a returned value goes back into submit, which appends it and keeps it
AttemptResponds(rsp) ==
    /\ pc = "attempt"
    /\ dispatches' = dispatches + 1
    /\ llmresponse' = rsp
    /\ LET r == TryBody(json_response, rsp)
       IN  IF r.kind = "return"
           THEN /\ convo' = add_assistant_message(convo, r.value)
                /\ last_reply' = r.value
                /\ outcome' = Returned(r.value)
                /\ pc' = "idle"
                /\ UNCHANGED <<iretry, efail>>
           ELSE /\ Handle(Failure(r.kind, iretry + 1))
                /\ UNCHANGED <<convo, last_reply>>
    /\ UNCHANGED <<SYSTEM_ANNOUNCEMENT_MESSAGE, openai_client, json_response, snapshot,
                   messages, op>>
    /\ UNCHANGED notSessVars

Next ==
    \/ \E r \in InputRoles, c \in InputContents : AddMessage(r, c)
    \/ \E ms \in AssignLists : AssignMessages(ms)
    \/ \E m \in InputContents \cup {<<>>}, r \in InputRoles, jr \in JsonResponses,
          now \in Times : Submit(m, r, jr, now)
    \/ \E r \in InputRoles, c \in InputContents, now \in Times : SubmitMessage(r, c, now)
    \/ AttemptFails
    \/ Backoff
    \/ \E e \in BOOLEAN, i \in BOOLEAN, t \in SampleTexts : AttemptResponds(Response(e, i, t))

----------------------------------------------------------------------------
(* Reply decoding on every reply text up to MaxTextLen (SpecDecode) *)

ReplyChars == {"{", "}", "[", "]", ",", "1", " "}

ReplyTexts == UNION { [1..k -> ReplyChars] : k \in 0..MaxTextLen }

NotDecoded == [jr |-> "None", kind |-> "none", value |-> PyNone]

InitDecodeIdle == output_text = <<>> /\ decoded = NotDecoded

InitDecode == output_text \in ReplyTexts /\ decoded = NotDecoded

\* the loop body of _gpt_submit from `llmreply = llmresponse.output_text.strip()` on
Decode(jr) ==
    /\ decoded = NotDecoded
    /\ decoded' = [jr |-> jr,
                   kind |-> TryBody(jr, Response(FALSE, FALSE, output_text)).kind,
                   value |-> TryBody(jr, Response(FALSE, FALSE, output_text)).value]
    /\ UNCHANGED output_text
    /\ UNCHANGED notDecVars

NextD == \E jr \in JsonResponses : Decode(jr)

----------------------------------------------------------------------------
(* Board (SpecBoard) *)

RowIndexes == 0..(BoardRows - 1)

ColIndexes == 0..(BoardCols - 1)

\* coordinates the operations are called with: the board and one step around it
RowInputs == (-1)..BoardRows

ColInputs == (-1)..BoardCols

\* Position(row, col)
Position(row, col) == <<row, col>>

\* Board._is_valid_position
_is_valid_position(row, col) == 0 <= row /\ row < BoardRows /\ 0 <= col /\ col < BoardCols

\* only a ship blocks a placement
IsOccupiedByShip(g, row, col) == g[row][col] = "ship"

\* self.grid[row][col] != EntityType.EMPTY
IsOccupied(g, row, col) == g[row][col] # "empty"

\* self.grid[row][col] = kind
GridSet(g, row, col, kind) == [g EXCEPT ![row][col] = kind]

Contains(list, x) == \E i \in 1..Len(list) : list[i] = x

\* the tracking list left as it is: the remove forgotten
RemoveNone(list, x) == list

\* list.remove(x): the list without its first x
RemoveFirst(list, x) ==
    LET i == CHOOSE j \in 1..Len(list) : list[j] = x /\ \A k \in 1..(j - 1) : list[k] # x
    IN  SubSeq(list, 1, i - 1) \o SubSeq(list, i + 1, Len(list))

NoCall == [name |-> "none", row |-> 0, col |-> 0]

Call(name, row, col) == [name |-> name, row |-> row, col |-> col]

\* Board.__init__
InitBoard ==
    /\ grid = [r \in RowIndexes |-> [c \in ColIndexes |-> "empty"]]
    /\ ships = <<>>
    /\ hostages = <<>>
    /\ call = NoCall
    /\ ret = "None"

InitBoardIdle == InitBoard

\* Board.place_ship
place_ship(row, col) ==
    /\ call' = Call("place_ship", row, col)
    /\ IF ~_is_valid_position(row, col)
       THEN ret' = "False" /\ UNCHANGED <<grid, ships, hostages>>
       ELSE IF IsOccupied(grid, row, col)
       THEN ret' = "False" /\ UNCHANGED <<grid, ships, hostages>>
       ELSE /\ grid' = GridSet(grid, row, col, "ship")
            /\ ships' = Append(ships, Position(row, col))
            /\ ret' = "True"
            /\ UNCHANGED hostages
    /\ UNCHANGED notBoardVars

\* Board.place_hostage
place_hostage(row, col) ==
    /\ call' = Call("place_hostage", row, col)
    /\ IF ~_is_valid_position(row, col)
       THEN ret' = "False" /\ UNCHANGED <<grid, ships, hostages>>
       ELSE IF IsOccupied(grid, row, col)
       THEN ret' = "False" /\ UNCHANGED <<grid, ships, hostages>>
       ELSE /\ grid' = GridSet(grid, row, col, "hostage")
            /\ hostages' = Append(hostages, Position(row, col))
            /\ ret' = "True"
            /\ UNCHANGED ships
    /\ UNCHANGED notBoardVars

\* Board._execute_fire; a list.remove that finds nothing raises ValueError
_execute_fire(row, col) ==
    IF ~_is_valid_position(row, col)
    THEN ret' = "None" /\ UNCHANGED <<grid, ships, hostages>>
    ELSE LET hit_type == grid[row][col]
         IN  IF hit_type = "ship"
             THEN IF Contains(ships, Position(row, col))
                  THEN /\ ships' = RemoveFirst(ships, Position(row, col))
                       /\ grid' = GridSet(grid, row, col, "empty")
                       /\ ret' = hit_type
                       /\ UNCHANGED hostages
                  ELSE ret' = "ValueError" /\ UNCHANGED <<grid, ships, hostages>>
             ELSE IF hit_type = "hostage"
             THEN IF Contains(hostages, Position(row, col))
                  THEN /\ hostages' = RemoveFirst(hostages, Position(row, col))
                       /\ grid' = GridSet(grid, row, col, "empty")
                       /\ ret' = hit_type
                       /\ UNCHANGED ships
                  ELSE ret' = "ValueError" /\ UNCHANGED <<grid, ships, hostages>>
             ELSE ret' = hit_type /\ UNCHANGED <<grid, ships, hostages>>

\* Board.fire(row, col) with two integers
fire(row, col) ==
    /\ call' = Call("fire", row, col)
    /\ _execute_fire(row, col)
    /\ UNCHANGED notBoardVars

\* Board.move_entity
move_entity(from_row, from_col, to_row, to_col) ==
    /\ call' = Call("move_entity", from_row, from_col)
    /\ IF ~_is_valid_position(from_row, from_col) \/ ~_is_valid_position(to_row, to_col)
       THEN ret' = "False" /\ UNCHANGED <<grid, ships, hostages>>
       ELSE LET entity_type == grid[from_row][from_col]
                moved == GridSet(GridSet(grid, from_row, from_col, "empty"),
                                 to_row, to_col, entity_type)
                old_pos == Position(from_row, from_col)
                new_pos == Position(to_row, to_col)
            IN  IF entity_type = "empty" \/ grid[to_row][to_col] # "empty"
                THEN ret' = "False" /\ UNCHANGED <<grid, ships, hostages>>
                ELSE /\ grid' = moved
                     /\ IF entity_type = "ship"
                        THEN IF Contains(ships, old_pos)
                             THEN /\ ships' = Append(RemoveFirst(ships, old_pos), new_pos)
                                  /\ ret' = "True"
                             ELSE ret' = "ValueError" /\ UNCHANGED ships
                        ELSE UNCHANGED ships
                     /\ IF entity_type = "hostage"
                        THEN IF Contains(hostages, old_pos)
                             THEN /\ hostages' = Append(RemoveFirst(hostages, old_pos), new_pos)
                                  /\ ret' = "True"
                             ELSE ret' = "ValueError" /\ UNCHANGED hostages
                        ELSE UNCHANGED hostages
    /\ UNCHANGED notBoardVars

\* Board.ships_remaining
ships_remaining == Len(ships)

\* the length of the wrong tracking list
hostages_remaining_of_ships == Len(ships)

\* Board.hostages_remaining
hostages_remaining == Len(hostages)

NextB ==
    \/ \E r \in RowInputs, c \in ColInputs : place_ship(r, c)
    \/ \E r \in RowInputs, c \in ColInputs : place_hostage(r, c)
    \/ \E r \in RowInputs, c \in ColInputs : fire(r, c)
    \/ \E r \in RowInputs, c \in ColInputs, tr \in RowInputs, tc \in ColInputs :
          move_entity(r, c, tr, tc)

----------------------------------------------------------------------------
(* The Board main() plays on (SpecShield)                                   *)
(*                                                                         *)
(* main() calls start_turn, deploy_chaff, fire(coordinates) and            *)
(* check_endgame on the Board, and tests the fire result against           *)
(* EntityType.CHAFF.  These operations are modelled from section 4.1 of    *)
(* the specification; an unshielded fire is _execute_fire.                 *)

InitChaff == chaff = {}

\* start_turn(): clears the shield overlay
start_turn ==
    /\ call' = Call("start_turn", 0, 0)
    /\ chaff' = {}
    /\ ret' = "None"
    /\ UNCHANGED <<grid, ships, hostages>>

\* a shield activated whatever is active already
MayDeployAnywhere(ch, row, col) == _is_valid_position(row, col)

\* deploy_shield fails if out of bounds or a shield is already active
MayDeploy(ch, row, col) == _is_valid_position(row, col) /\ ch = {}

\* deploy_chaff(coordinates)
deploy_chaff(row, col) ==
    /\ call' = Call("deploy_chaff", row, col)
    /\ IF MayDeploy(chaff, row, col)
       THEN chaff' = chaff \cup {Position(row, col)} /\ ret' = "True"
       ELSE chaff' = chaff /\ ret' = "False"
    /\ UNCHANGED <<grid, ships, hostages>>

\* the shield consumed, and the shot carried out all the same
fire_on_board_through(row, col) ==
    /\ call' = Call("fire", row, col)
    /\ chaff' = chaff \ {Position(row, col)}
    /\ _execute_fire(row, col)

\* fire(coordinates): out of bounds as in _execute_fire; a shielded cell
\* consumes the shield and returns EntityType.CHAFF with the cell untouched;
\* otherwise _execute_fire
fire_on_board(row, col) ==
    /\ call' = Call("fire", row, col)
    /\ IF _is_valid_position(row, col) /\ Position(row, col) \in chaff
       THEN /\ chaff' = chaff \ {Position(row, col)}
            /\ ret' = "chaff"
            /\ UNCHANGED <<grid, ships, hostages>>
       ELSE /\ _execute_fire(row, col)
            /\ UNCHANGED chaff

\* Lose looked at before Win
EndgameLoseFirst(nships, nhostages) ==
    IF nhostages = 0 THEN "lose" ELSE IF nships = 0 THEN "win" ELSE "None"

\* Win whenever no ship remains, looked at before Lose (no hostage remains);
\* InProgress, for which EndgameResult has no member, is None
Endgame(nships, nhostages) ==
    IF nships = 0 THEN "win" ELSE IF nhostages = 0 THEN "lose" ELSE "None"

\* check_endgame()
check_endgame ==
    /\ call' = Call("check_endgame", 0, 0)
    /\ ret' = Endgame(ships_remaining, hostages_remaining)
    /\ UNCHANGED <<grid, ships, hostages, chaff>>

\* the operations called one at a time, in any order
CallStartTurn == start_turn /\ UNCHANGED notShieldVars

CallDeployChaff(row, col) == deploy_chaff(row, col) /\ UNCHANGED notShieldVars

CallFire(row, col) == fire_on_board(row, col) /\ UNCHANGED notShieldVars

CallCheckEndgame == check_endgame /\ UNCHANGED notShieldVars

NextS ==
    \/ \E r \in RowInputs, c \in ColInputs : place_ship(r, c)
    \/ \E r \in RowInputs, c \in ColInputs : place_hostage(r, c)
    \/ CallStartTurn
    \/ \E r \in RowInputs, c \in ColInputs : CallDeployChaff(r, c)
    \/ \E r \in RowInputs, c \in ColInputs : CallFire(r, c)
    \/ CallCheckEndgame

----------------------------------------------------------------------------
(* main(): the game loop (SpecTurn)                                         *)
(*                                                                         *)
(* One action per stretch of main() between two places where it can take  *)
(* different ways.  An agent call returns, raises the ValueError main()    *)
(* catches, or raises something else, which ends the process.              *)

NoCoordinates == [none |-> TRUE, row |-> 0, col |-> 0]

\* Coordinates(row, col)
Coordinates(row, col) == [none |-> FALSE, row |-> row, col |-> col]

\* no firing decision replied yet
NoVerdict ==
    [none |-> TRUE, is_injection_attack |-> FALSE, fire_or_not |-> FALSE,
     col |-> <<>>, row |-> 0]

\* the fields of the firing decision receive_targeting_instructions deals with
Verdict(inj, fire_or_not, col, row) ==
    [none |-> FALSE, is_injection_attack |-> inj, fire_or_not |-> fire_or_not,
     col |-> col, row |-> row]

NoFault == [exc |-> "None", cause |-> "None", at |-> "None"]

\* exception exc raised in the agent call of phase at; cause tells why
Fault(exc, cause, at) == [exc |-> exc, cause |-> cause, at |-> at]

\* the {} Enemy.start_turn appends: `has` are the keys written so far
EmptyEvent ==
    [has |-> {}, targeting_instructions |-> "", spoofed_targeting_instructions |-> "",
     spoof_explanation |-> "", fired_coordinates |-> NoCoordinates, lore_belief |-> "None"]

InitTurn ==
    /\ phase = "setup"
    /\ is_injection_turn = TRUE
    /\ fire_coordinates = NoCoordinates
    /\ turn_calls = <<>>
    /\ swept = {}
    /\ lore_context = "None"
    /\ verdict = NoVerdict
    /\ fault = NoFault
    /\ turns_started = 0
    /\ _event_history = <<>>

----------------------------------------------------------------------------
(* Coordinates.from_string and Coordinates.__repr__ (SpecCoord) *)

UpperLetters == <<"A", "B", "C", "D", "E", "F", "G", "H", "I", "J", "K", "L", "M",
                  "N", "O", "P", "Q", "R", "S", "T", "U", "V", "W", "X", "Y", "Z">>

LowerLetters == <<"a", "b", "c", "d", "e", "f", "g", "h", "i", "j", "k", "l", "m",
                  "n", "o", "p", "q", "r", "s", "t", "u", "v", "w", "x", "y", "z">>

IsUpper(c) == \E i \in 1..26 : UpperLetters[i] = c

IsLower(c) == \E i \in 1..26 : LowerLetters[i] = c

\* the characters of coordinate texts
CoordAlphabet ==
    { UpperLetters[i] : i \in 1..26 } \cup { LowerLetters[i] : i \in 1..26 }
    \cup { Digits[i] : i \in 1..10 } \cup {" ", "+", "-", "@", "[", "_"}

\* ord(c)
Ord(c) ==
    IF IsUpper(c) THEN 64 + (CHOOSE i \in 1..26 : UpperLetters[i] = c)
    ELSE IF IsLower(c) THEN 96 + (CHOOSE i \in 1..26 : LowerLetters[i] = c)
    ELSE IF IsDigit(c) THEN 48 + DigitVal(c)
    ELSE CASE c = " " -> 32 [] c = "+" -> 43 [] c = "-" -> 45
           [] c = "@" -> 64 [] c = "[" -> 91 [] c = "_" -> 95

\* chr(n), for the code points of the alphabet
Chr(n) == CHOOSE c \in CoordAlphabet : Ord(c) = n

\* str.upper()
upper(t) == [i \in 1..Len(t) |-> IF IsLower(t[i]) THEN Chr(Ord(t[i]) - 32) ELSE t[i]]

IntFail == [ok |-> FALSE, n |-> 0]

\* the digits of an int literal from position i on, single underscores
\* allowed between digits; acc is the value read so far
RECURSIVE IntDigits(_, _, _)
IntDigits(t, i, acc) ==
    IF i > Len(t) THEN [ok |-> TRUE, n |-> acc]
    ELSE IF IsDigit(t[i]) THEN IntDigits(t, i + 1, acc * 10 + DigitVal(t[i]))
    ELSE IF t[i] = "_" /\ i > 1 /\ IsDigit(t[i - 1]) /\ i < Len(t) /\ IsDigit(t[i + 1])
         THEN IntDigits(t, i + 1, acc)
    ELSE IntFail

\* int(t) of a str: surrounding whitespace dropped, an optional sign, then
\* the digits; ok = FALSE stands for ValueError
int(t) ==
    LET u == strip(t)
        signed == u # <<>> /\ Head(u) \in {"+", "-"}
        d == IF signed THEN Tail(u) ELSE u
        r == IF d = <<>> THEN IntFail ELSE IntDigits(d, 1, 0)
    IN  IF r.ok /\ signed /\ Head(u) = "-" THEN [ok |-> TRUE, n |-> 0 - r.n] ELSE r

\* str(n)
str(n) == IF n < 0 THEN <<"-">> \o IntStr(0 - n) ELSE IntStr(n)

NoText == <<"None">>

NotParsed == [ok |-> FALSE, error |-> "None", coordinates |-> NoCoordinates]

ParseError == [ok |-> FALSE, error |-> "ValueError", coordinates |-> NoCoordinates]

\* a row number of 0 let through
RowNumberTooSmallBelowZero(row_number) == row_number < 0

\* `if row_number < 1`
RowNumberTooSmall(row_number) == row_number < 1

\* Coordinates.from_string(value)
from_string(v) ==
    LET normalized == upper(strip(v))
        column_letter == normalized[1]
        row_number == int(Tail(normalized))
    IN  IF Len(normalized) < 2 THEN ParseError
        ELSE IF Ord(column_letter) < Ord("A") \/ Ord(column_letter) > Ord("Z") THEN ParseError
        ELSE IF ~row_number.ok THEN ParseError
        ELSE IF RowNumberTooSmall(row_number.n) THEN ParseError
        ELSE [ok |-> TRUE, error |-> "None",
              coordinates |-> Coordinates(row_number.n - 1,
                                          Ord(column_letter) - Ord("A"))]

\* Coordinates.__repr__
repr(c) == <<Chr(Ord("A") + c.col)>> \o str(c.row + 1)

CoordChars == {"a", "B", "Z", "[", "0", "1", "-", "+", " ", "_"}

CoordTexts == UNION { [1..k -> CoordChars] : k \in 0..MaxCoordLen }

\* the Coordinates objects formatted: rows from -1, columns A to Z and one beyond
CoordObjects == { Coordinates(r, c) : r \in (-1)..MaxRow, c \in 0..26 }

InitCoordIdle ==
    /\ origin = "none" /\ value = NoText /\ parsed = NotParsed
    /\ coordinates = NoCoordinates /\ shown = NoText

InitCoord ==
    /\ origin \in {"text", "coordinates"}
    /\ parsed = NotParsed
    /\ shown = NoText
    /\ IF origin = "text"
       THEN value \in CoordTexts /\ coordinates = NoCoordinates
       ELSE value = NoText /\ coordinates \in CoordObjects

\* Coordinates.from_string(value); a text that came from outside gives the
\* object to format
FromString ==
    /\ value # NoText /\ parsed = NotParsed
    /\ parsed' = from_string(value)
    /\ coordinates' = IF origin = "text" THEN parsed'.coordinates ELSE coordinates
    /\ UNCHANGED <<origin, value, shown>>
    /\ UNCHANGED notCoordVars

\* repr(coordinates); the text of an object that came from outside is parsed next
Repr ==
    /\ ~coordinates.none /\ shown = NoText
    /\ shown' = repr(coordinates)
    /\ value' = IF origin = "coordinates" THEN shown' ELSE value
    /\ UNCHANGED <<origin, parsed, coordinates>>
    /\ UNCHANGED notCoordVars

NextC == FromString \/ Repr

----------------------------------------------------------------------------
(* main(): the steps of the game loop (SpecTurn)                            *)
(*                                                                         *)
(* A session submit that runs out of retries raises its last failure: an    *)
(* openai.OpenAIError, or a json.JSONDecodeError, which is a ValueError.    *)

CellSeq == [i \in 1..(BoardRows * BoardCols) |->
              Position((i - 1) \div BoardCols, (i - 1) % BoardCols)]

Grids == [RowIndexes -> [ColIndexes -> {"empty", "ship", "hostage"}]]

\* the col and row fields a reply can hold: a column letter or "", a number
ReplyCols == {<<>>, <<"A">>, <<"B">>}

ReplyRows == 0..2

Verdicts ==
    { Verdict(inj, f, c, r) : inj \in BOOLEAN, f \in BOOLEAN, c \in ReplyCols, r \in ReplyRows }

EnemyReplies == { [col |-> c, row |-> r] : c \in ReplyCols, r \in ReplyRows }

\* lore_context = input(...).strip(); ally.setup(lore_context, openai_client);
\* board = Board(rows, cols); board.setup(num_ships, num_hostages): some
\* ships and some hostages on cells of its choice
setup(g) ==
    /\ phase = "setup"
    /\ \E r \in RowIndexes, c \in ColIndexes : g[r][c] = "ship"
    /\ \E r \in RowIndexes, c \in ColIndexes : g[r][c] = "hostage"
    /\ lore_context' \in {"", "lore"}
    /\ grid' = g
    /\ ships' = SelectSeq(CellSeq, LAMBDA p : g[p[1]][p[2]] = "ship")
    /\ hostages' = SelectSeq(CellSeq, LAMBDA p : g[p[1]][p[2]] = "hostage")
    /\ call' = Call("setup", 0, 0)
    /\ ret' = "None"
    /\ phase' = "loop"
    /\ UNCHANGED <<chaff, is_injection_turn, fire_coordinates, turn_calls, swept,
                   verdict, fault, turns_started, _event_history>>
    /\ UNCHANGED notTurnVars

\* board.start_turn() called only in the turns in which a shield can come
CallsStartTurnGenuineOnly(inj) == ~inj

\* board.start_turn() is called at the top of every loop iteration
CallsStartTurn(inj) == TRUE

\* a history that keeps the record of the current turn only
OpenEventAfresh(history) == <<EmptyEvent>>

\* Enemy.start_turn: self._event_history.append({})
OpenEvent(history) == Append(history, EmptyEvent)

\* a record that never gains a key
WriteNoEvent(history, keys) == history

\* self._event_history[-1][key] = ... for the keys given
WriteEvent(history, keys) == [history EXCEPT ![Len(history)].has = @ \cup keys]

\* the flag left as it is
SameSource(inj) == inj

\* is_injection_turn = not is_injection_turn
OtherSource(inj) == ~inj

\* the top of the loop: the flag flipped, board.start_turn(), the agents' start_turn
StartTurn ==
    /\ phase = "loop"
    /\ turns_started < MaxTurns
    /\ turns_started' = turns_started + 1
    /\ is_injection_turn' = OtherSource(is_injection_turn)
    /\ IF CallsStartTurn(is_injection_turn')
       THEN start_turn /\ turn_calls' = <<"start_turn">> /\ swept' = chaff
       ELSE UNCHANGED <<boardVars, chaff>> /\ turn_calls' = <<>> /\ swept' = {}
    /\ _event_history' = OpenEvent(_event_history)
    /\ verdict' = NoVerdict
    /\ fault' = NoFault
    /\ phase' = "instructions"
    /\ UNCHANGED <<fire_coordinates, lore_context>>
    /\ UNCHANGED notTurnVars

\* the instruction: typed in (or the word to quit) in a genuine turn,
\* enemy.inject_spoofed_message() in an injection turn, which is called
\* outside the try statement
InstructionAcquired(result) ==
    /\ phase = "instructions"
    /\ result \in (IF is_injection_turn THEN {"text", "JSONDecodeError", "OpenAIError"}
                                        ELSE {"text", "quit"})
    /\ phase' = CASE result = "text" -> "receiver"
                  [] result = "quit" -> "exit"
                  [] OTHER -> "crashed"
    /\ fault' = IF result \in {"JSONDecodeError", "OpenAIError"}
                THEN Fault(result, "exhausted", "instructions") ELSE fault
    /\ _event_history' =
          IF is_injection_turn /\ result = "text"
          THEN WriteEvent(_event_history, {"spoofed_targeting_instructions", "spoof_explanation"})
          ELSE _event_history
    /\ fire_coordinates' = NoCoordinates
    /\ UNCHANGED <<boardVars, chaff, is_injection_turn, turn_calls, swept,
                   lore_context, verdict, turns_started>>
    /\ UNCHANGED notTurnVars

\* no except clause around the agent calls
except_nothing(exc) == FALSE

\* `except ValueError`: json.JSONDecodeError is a subclass of ValueError
except_ValueError(exc) == exc \in {"ValueError", "JSONDecodeError"}

\* the eavesdropper is asked in every turn
OverhearsAlways(inj) == TRUE

\* `if not is_injection_turn:` around enemy.overhear_targeting_instructions
Overhears(inj) == ~inj

\* ally.receive_targeting_instructions inside the try statement: the checks
\* of its setup, its sessions, then fire_or_not, col and row of the reply
ReceiverVerdict(result, v) ==
    /\ phase = "receiver"
    /\ LET unset == lore_context = ""
           p == from_string(v.col \o str(v.row))
           exc == IF unset THEN "ValueError"
                  ELSE IF result # "reply" THEN result
                  ELSE IF v.fire_or_not /\ ~p.ok THEN "ValueError"
                  ELSE "None"
           cause == IF unset THEN "precondition"
                    ELSE IF result # "reply" THEN "exhausted"
                    ELSE "coordinate"
       IN  /\ fault' = IF exc = "None" THEN fault ELSE Fault(exc, cause, "receiver")
           /\ verdict' = IF ~unset /\ result = "reply" THEN v ELSE verdict
           /\ fire_coordinates' = IF exc = "None" /\ v.fire_or_not
                                  THEN p.coordinates ELSE NoCoordinates
           /\ phase' = IF exc = "None"
                       THEN (IF Overhears(is_injection_turn) THEN "eavesdropper" ELSE "resolve")
                       ELSE IF except_ValueError(exc) THEN "resolve"
                       ELSE "crashed"
    /\ UNCHANGED <<boardVars, chaff, is_injection_turn, turn_calls, swept,
                   lore_context, turns_started, _event_history>>
    /\ UNCHANGED notTurnVars

\* can_deploy_chaff(): shields are disabled once one ship remains
can_deploy_chaff == ships_remaining > 1

\* enemy.overhear_targeting_instructions inside its own try statement, and
\* board.deploy_chaff when it returned coordinates; it returns None when
\* can_deploy_chaff() is false
ShieldDeployment(result, r) ==
    /\ phase = "eavesdropper"
    /\ LET p == from_string(r.col \o str(r.row))
           blank == r.col = <<>> \/ r.row = 0
           located == can_deploy_chaff /\ ~blank /\ p.ok
           exc == IF result \in {"OpenAIError", "OpenAIErrorAtRecap"} THEN "OpenAIError"
                  ELSE IF ~can_deploy_chaff THEN "None"
                  ELSE IF result = "JSONDecodeError" THEN "JSONDecodeError"
                  ELSE IF ~located THEN "ValueError"
                  ELSE "None"
           cause == IF result # "reply" THEN "exhausted"
                    ELSE IF blank THEN "reply" ELSE "coordinate"
       IN  /\ result = "JSONDecodeError" => can_deploy_chaff
           /\ result = "OpenAIErrorAtRecap" => located
           /\ fault' = IF exc = "None" THEN fault ELSE Fault(exc, cause, "eavesdropper")
           /\ _event_history' =
                 LET h == WriteEvent(_event_history, {"targeting_instructions"})
                 IN  IF located /\ result \in {"reply", "OpenAIErrorAtRecap"}
                     THEN [WriteEvent(h, {"lore_belief"})
                              EXCEPT ![Len(h)].lore_belief = "overheard"]
                     ELSE h
           /\ IF located /\ result = "reply"
              THEN /\ deploy_chaff(p.coordinates.row, p.coordinates.col)
                   /\ turn_calls' = Append(turn_calls, "deploy_chaff")
              ELSE UNCHANGED <<boardVars, chaff, turn_calls>>
           /\ phase' = IF exc = "None" \/ except_ValueError(exc) THEN "resolve" ELSE "crashed"
    /\ UNCHANGED <<is_injection_turn, fire_coordinates, swept, lore_context, verdict,
                   turns_started>>
    /\ UNCHANGED notTurnVars

\* board.fire never called
FiresNever(coords) == FALSE

\* `if not fire_coordinates: ... else: hit = board.fire(fire_coordinates)`
Fires(coords) == ~coords.none

\* board.fire(fire_coordinates) when the ally gave coordinates
Resolved ==
    /\ phase = "resolve"
    /\ IF Fires(fire_coordinates)
       THEN /\ fire_on_board(fire_coordinates.row, fire_coordinates.col)
            /\ turn_calls' = Append(turn_calls, "fire")
       ELSE UNCHANGED <<boardVars, chaff, turn_calls>>
    /\ phase' = "endgame"
    /\ UNCHANGED <<is_injection_turn, fire_coordinates, swept, lore_context, verdict, fault,
                   turns_started, _event_history>>
    /\ UNCHANGED notTurnVars

\* the loop goes on after a lost game
LeavesLoopOnWinOnly(endgame) == endgame = "win"

\* `if endgame == EndgameResult.WIN: break`, `if endgame == EndgameResult.LOSE: break`
LeavesLoop(endgame) == endgame \in {"win", "lose"}

\* board.check_endgame(): Win and Lose leave the loop
EndgameEvaluated ==
    /\ phase = "endgame"
    /\ check_endgame
    /\ turn_calls' = Append(turn_calls, "check_endgame")
    /\ phase' = IF LeavesLoop(ret') THEN "exit" ELSE "observe"
    /\ UNCHANGED <<is_injection_turn, fire_coordinates, swept, lore_context, verdict, fault,
                   turns_started, _event_history>>
    /\ UNCHANGED notTurnVars

\* enemy.observe_opponent_action(fire_coordinates), outside the try
\* statement, then the next iteration
EavesdropperUpdate(result) ==
    /\ phase = "observe"
    /\ phase' = IF result = "ok" THEN "loop" ELSE "crashed"
    /\ fault' = IF result = "ok" THEN fault ELSE Fault(result, "exhausted", "observe")
    /\ _event_history' =
          LET h == [WriteEvent(_event_history, {"fired_coordinates"})
                       EXCEPT ![Len(_event_history)].fired_coordinates = fire_coordinates]
          IN  IF result = "ok"
              THEN [WriteEvent(h, {"lore_belief"}) EXCEPT ![Len(h)].lore_belief = "observed"]
              ELSE h
    /\ UNCHANGED <<boardVars, chaff, is_injection_turn, fire_coordinates, turn_calls, swept,
                   lore_context, verdict, turns_started>>
    /\ UNCHANGED notTurnVars

NextT ==
    \/ \E g \in Grids : setup(g)
    \/ StartTurn
    \/ \E o \in {"text", "quit", "JSONDecodeError", "OpenAIError"} : InstructionAcquired(o)
    \/ \E o \in {"reply", "JSONDecodeError", "OpenAIError"}, v \in Verdicts :
          ReceiverVerdict(o, v)
    \/ \E o \in {"reply", "JSONDecodeError", "OpenAIError", "OpenAIErrorAtRecap"},
          r \in EnemyReplies : ShieldDeployment(o, r)
    \/ Resolved
    \/ EndgameEvaluated
    \/ \E o \in {"ok", "OpenAIError"} : EavesdropperUpdate(o)

----------------------------------------------------------------------------
(* JSONSchemaFormat: the heuristic schema and its compilation (SpecSchema)   *)
(*                                                                         *)
(* A Python value of a heuristic schema is a record [k, s, n, items, keys]: *)
(* k = "type" is a type object named s; "str", "int", "float", "bool",      *)
(* "none" are instances; "list" and "tuple" hold items; "dict" holds keys   *)
(* and, in the same order, items.                                          *)

HVal(k, str_, num, items, keys) == [k |-> k, s |-> str_, n |-> num, items |-> items, keys |-> keys]

TypeObj(t) == HVal("type", t, 0, <<>>, <<>>)

StrVal(t) == HVal("str", t, 0, <<>>, <<>>)

IntVal(i) == HVal("int", "", i, <<>>, <<>>)

FloatVal(i) == HVal("float", "", i, <<>>, <<>>)

NoneVal == HVal("none", "", 0, <<>>, <<>>)

ListVal(items) == HVal("list", "", 0, items, <<>>)

TupleVal(items) == HVal("tuple", "", 0, items, <<>>)

DictVal(keys, items) == HVal("dict", "", 0, items, keys)

\* `not item`
Falsy(v) ==
    \/ v.k = "none"
    \/ v.k \in {"int", "float", "bool"} /\ v.n = 0
    \/ v.k = "str" /\ v.s = ""
    \/ v.k \in {"list", "tuple", "dict"} /\ v.items = <<>>

\* isinstance(v, list) and len(v) >= 2 and all(isinstance(i, str) for i in v)
IsEnumList(v) ==
    v.k = "list" /\ Len(v.items) >= 2 /\ \A i \in 1..Len(v.items) : v.items[i].k = "str"

\* isinstance(v, (float, int)); bool is a subclass of int
IsNumber(v) == v.k \in {"int", "float", "bool"}

\* isinstance(v, tuple) and len(v) == 2 and one of the two is a number
IsNumRange(v) ==
    v.k = "tuple" /\ Len(v.items) = 2 /\ (IsNumber(v.items[1]) \/ IsNumber(v.items[2]))

\* the locals of _convert_schema_recursive before the loop over a tuple
ScanStart(subschema) ==
    [description |-> "", enum |-> <<>>, numrange |-> <<NoneVal, NoneVal>>, value |-> subschema]

\* the loop `for item in subschema`, from item i on
RECURSIVE ScanTuple(_, _, _)
ScanTuple(items, i, st) ==
    IF i > Len(items) THEN st
    ELSE LET item == items[i]
         IN  IF Falsy(item) THEN ScanTuple(items, i + 1, [st EXCEPT !.value = item])
             ELSE IF item.k = "str"
                  THEN ScanTuple(items, i + 1, [st EXCEPT !.description = item.s])
             ELSE IF IsEnumList(item)
                  THEN ScanTuple(items, i + 1, [st EXCEPT !.enum = item.items])
             ELSE IF IsNumRange(item)
                  THEN ScanTuple(items, i + 1, [st EXCEPT !.numrange = item.items])
             ELSE ScanTuple(items, i + 1, [st EXCEPT !.value = item])

\* `if isinstance(subschema_value, tuple)`: the type inferred from the enum,
\* then from the range
InferValue(st) ==
    IF st.value.k # "tuple" THEN st.value
    ELSE IF st.numrange[1].k # "none" \/ st.numrange[2].k # "none"
         THEN IF st.numrange[1].k = "float" \/ st.numrange[2].k = "float"
              THEN TypeObj("float") ELSE TypeObj("int")
    ELSE IF Len(st.enum) > 0 THEN TypeObj("str")
    ELSE st.value

(* A node of the compiled JSON schema is a record too: `has` is the set of   *)
(* its keys besides "type"; a key that is absent keeps the filler below.   *)
NoNode ==
    [type |-> "", has |-> {}, description |-> "", additionalProperties |-> TRUE,
     required |-> <<>>, propkeys |-> <<>>, props |-> <<>>, items |-> <<>>,
     enum |-> <<>>, minItems |-> NoneVal, maxItems |-> NoneVal,
     minValue |-> NoneVal, maxValue |-> NoneVal]

\* an exception leaving _convert_schema_recursive
SchemaErrors == {"ValueError", "TypeError", "IndexError"}

Raise(e) == [NoNode EXCEPT !.type = e]

IsRaise(node) == node.type \in SchemaErrors

\* `if subschema_description: recretval["description"] = ...`
WithDescription(node, d) ==
    IF d = "" THEN node
    ELSE [node EXCEPT !.has = @ \cup {"description"}, !.description = d]

\* {"type": "string", "description": v}, for a dict value or an array
\* exemplar that is a string
StringNode(d) ==
    [NoNode EXCEPT !.type = "string", !.has = {"description"}, !.description = d]

RequiredKeysButLast(keys) == IF keys = <<>> THEN keys ELSE SubSeq(keys, 1, Len(keys) - 1)

\* recretval["required"] = list(subschema_value.keys())
RequiredKeys(keys) == keys

\* the object node of a dict, its properties already converted
ObjectNode(d, keys, props) ==
    WithDescription(
        [NoNode EXCEPT !.type = "object",
                       !.has = {"additionalProperties", "required", "properties"},
                       !.additionalProperties = FALSE,
                       !.required = RequiredKeys(keys),
                       !.propkeys = keys,
                       !.props = props], d)

\* the array node of a list, before its items are converted
ArrayNode(d, numrange) ==
    LET n0 == WithDescription([NoNode EXCEPT !.type = "array"], d)
        n1 == IF numrange[1].k # "none"
              THEN [n0 EXCEPT !.has = @ \cup {"minItems"}, !.minItems = numrange[1]] ELSE n0
    IN  IF numrange[2].k # "none"
        THEN [n1 EXCEPT !.has = @ \cup {"maxItems"}, !.maxItems = numrange[2]] ELSE n1

\* hash(v) raises TypeError: a list or a dict, or a tuple that holds one
RECURSIVE Unhashable(_)
Unhashable(v) ==
    \/ v.k \in {"list", "dict"}
    \/ v.k = "tuple" /\ \E i \in 1..Len(v.items) : Unhashable(v.items[i])

\* TYPEMAP.get(subschema_value), then TYPEMAP.get(type(subschema_value));
\* "" when neither is a key of TYPEMAP
TYPEMAP(v) ==
    IF v.k = "type"
    THEN CASE v.s = "str" -> "string"
           [] v.s = "int" -> "integer"
           [] v.s = "float" -> "number"
           [] v.s = "bool" -> "boolean"
           [] OTHER -> ""
    ELSE CASE v.k = "str" -> "string"
           [] v.k = "int" -> "integer"
           [] v.k = "float" -> "number"
           [] v.k = "bool" -> "boolean"
           [] OTHER -> ""

\* the first exception among converted children, in order; NoNode if none
RECURSIVE FirstRaise(_, _)
FirstRaise(nodes, i) ==
    IF i > Len(nodes) THEN NoNode
    ELSE IF IsRaise(nodes[i]) THEN nodes[i]
    ELSE FirstRaise(nodes, i + 1)

\* `if subschema_enum:` and `if isinstance(subschema_value, (int, float)):`
WithEnumAndRange(node, st, v) ==
    LET n0 == IF st.enum # <<>>
              THEN [node EXCEPT !.has = @ \cup {"enum"},
                                !.enum = [i \in 1..Len(st.enum) |-> st.enum[i].s]]
              ELSE node
        n1 == IF IsNumber(v) /\ st.numrange[1].k # "none"
              THEN [n0 EXCEPT !.has = @ \cup {"minValue"}, !.minValue = st.numrange[1]] ELSE n0
    IN  IF IsNumber(v) /\ st.numrange[2].k # "none"
        THEN [n1 EXCEPT !.has = @ \cup {"maxValue"}, !.maxValue = st.numrange[2]] ELSE n1

RECURSIVE _convert_schema_recursive(_)
_convert_schema_recursive(subschema) ==
    LET st == IF subschema.k = "tuple"
              THEN ScanTuple(subschema.items, 1, ScanStart(subschema))
              ELSE ScanStart(subschema)
        v  == InferValue(st)
        child(x) == IF x.k = "str" THEN StringNode(x.s) ELSE _convert_schema_recursive(x)
    IN  IF v.k = "dict"
        THEN LET props == [i \in 1..Len(v.items) |-> child(v.items[i])]
             IN  IF IsRaise(FirstRaise(props, 1)) THEN FirstRaise(props, 1)
                 ELSE WithEnumAndRange(ObjectNode(st.description, v.keys, props), st, v)
        ELSE IF v.k = "list"
        THEN IF IsEnumList(v)
             THEN WithEnumAndRange([NoNode EXCEPT !.type = "string"],
                                   [st EXCEPT !.enum = v.items], v)
             ELSE IF v.items = <<>> THEN Raise("IndexError")
             ELSE LET item == child(v.items[1])
                  IN  IF IsRaise(item) THEN item
                      ELSE WithEnumAndRange(
                               [ArrayNode(st.description, st.numrange)
                                   EXCEPT !.has = @ \cup {"items"}, !.items = <<item>>],
                               st, v)
        ELSE IF Unhashable(v) THEN Raise("TypeError")
        ELSE IF TYPEMAP(v) = "" THEN Raise("ValueError")
        ELSE WithEnumAndRange(
                 WithDescription([NoNode EXCEPT !.type = TYPEMAP(v)], st.description), st, v)

\* `if convresult["type"] != "object":`
NeedsWrap(c) == c.type # "object"

\* `if not name: name = "schema"`
WrapName(nm) == IF nm = "" THEN "schema" ELSE nm

\* the object JSONSchemaFormat puts around a root that is not an object
WrapRoot(nm, c) ==
    [NoNode EXCEPT !.type = "object",
                   !.has = {"required", "additionalProperties", "properties"},
                   !.required = <<nm>>,
                   !.additionalProperties = FALSE,
                   !.propkeys = <<nm>>,
                   !.props = <<c>>]

\* the text _gpt_submit appends to the description of a format
NO_UNICODE == "ABSOLUTELY NO UNICODE ALLOWED. ..."

NoFormat ==
    [type |-> "", strict |-> FALSE, has |-> {}, name |-> "", description |-> <<>>,
     schema |-> NoNode]

\* retval["format"] of JSONSchemaFormat(sch, name=nm, description=d), given
\* the converted root c; a description is the sequence of the texts it is
\* concatenated from
FormatOf(nm, d, c) ==
    [type |-> "json_schema", strict |-> TRUE,
     has |-> (IF nm # "" THEN {"name"} ELSE {}) \cup (IF d # "" THEN {"description"} ELSE {}),
     name |-> nm,
     description |-> IF d # "" THEN <<d>> ELSE <<>>,
     schema |-> IF NeedsWrap(c) THEN WrapRoot(WrapName(nm), c) ELSE c]

\* the caller's object is number ref; _gpt_submit works on object 0, a new one
SameObject(ref) == ref

\* json_response = json.loads(json.dumps(json_response)): a new object of
\* the same content (the content is str, bool, int, list and dict only)
DeepCopy(ref) == 0

\* format_dict["description"] += "...NO UNICODE..." when the key is there
Described(format) ==
    IF "description" \in format.has
    THEN [format EXCEPT !.description = Append(@, NO_UNICODE)]
    ELSE format

\* the heuristic schemas explored: leaves, tuples of up to MaxTupleLen
\* members, dicts of them, and dicts and lists one level deeper
SchemaInputs ==
    LET enum == ListVal(<<StrVal("a"), StrVal("b")>>)
        leaves ==
            {TypeObj("str"), TypeObj("int"), TypeObj("float"), TypeObj("bool"),
             TypeObj("bytes"), StrVal("d"), StrVal(""), IntVal(0), NoneVal, enum,
             ListVal(<<>>), ListVal(<<TypeObj("int")>>), ListVal(<<StrVal("d")>>)}
        members ==
            {TypeObj("str"), TypeObj("int"), StrVal("d"), enum,
             TupleVal(<<IntVal(1), IntVal(2)>>), TupleVal(<<FloatVal(1), NoneVal>>),
             ListVal(<<TypeObj("str")>>), DictVal(<<"k">>, <<TypeObj("str")>>)}
        tuples ==
            {TupleVal(t) : t \in UNION {[1..n -> members] : n \in 1..MaxTupleLen}}
        values == leaves \cup tuples
        dicts ==
            {DictVal(<<>>, <<>>)}
            \cup {DictVal(<<"k">>, <<v>>) : v \in values}
            \cup {DictVal(<<"k", "j">>, <<v, w>>) :
                    v \in leaves, w \in {TypeObj("int"), StrVal("d"), TypeObj("bytes")}}
        nested ==
            {DictVal(<<"k">>, <<DictVal(<<"j">>, <<v>>)>>) : v \in leaves}
            \cup {ListVal(<<DictVal(<<"j">>, <<v>>)>>) : v \in leaves}
            \cup {DictVal(<<"k">>,
                          <<TupleVal(<<StrVal("d"), DictVal(<<"j", "i">>, <<v, v>>)>>)>>) :
                    v \in leaves}
    IN  values \cup dicts \cup nested

InitSchemaIdle ==
    /\ schema = NoneVal /\ name_arg = "" /\ description = ""
    /\ formats = <<>> /\ convresult = NoNode /\ raised = "None"
    /\ openai_text_param = NoFormat

InitSchema ==
    /\ schema \in SchemaInputs
    /\ name_arg \in {"", "n"}
    /\ description \in {"", "D"}
    /\ formats = <<>> /\ convresult = NoNode /\ raised = "None"
    /\ openai_text_param = NoFormat

\* JSONSchemaFormat(schema, name=name_arg, description=description), its result
\* kept by the caller
JSONSchemaFormat ==
    /\ Len(formats) < MaxFormats
    /\ LET c == _convert_schema_recursive(schema)
       IN  /\ convresult' = c
           /\ IF IsRaise(c)
              THEN raised' = c.type /\ formats' = formats
              ELSE raised' = "None" /\ formats' = Append(formats, FormatOf(name_arg, description, c))
    /\ UNCHANGED <<schema, name_arg, description, openai_text_param>>
    /\ UNCHANGED notSchemaVars

\* _gpt_submit(..., json_response=<the caller's object ref>) up to the point
\* where openai_text_param is final
SubmitWith(ref) ==
    /\ ref \in 1..Len(formats)
    /\ LET target == DeepCopy(ref)
           written == Described(formats[ref])
       IN  /\ openai_text_param' = written
           /\ formats' = IF target = 0 THEN formats ELSE [formats EXCEPT ![target] = written]
    /\ UNCHANGED <<schema, name_arg, description, convresult, raised>>
    /\ UNCHANGED notSchemaVars

NextF ==
    \/ JSONSchemaFormat
    \/ \E ref \in 1..MaxFormats : SubmitWith(ref)

----------------------------------------------------------------------------
(* The sessions of the agents over the turns (SpecAgents)                   *)
(*                                                                         *)
(* The board is left out: what the agents read of it is one token, and     *)
(* can_deploy_chaff() and the end of the game are inputs.  A message is a   *)
(* role, a content of text tokens, and the turn it speaks of: for a        *)
(* replayed message the place of its record in the history, for every      *)
(* other message the turn in which it was written.                         *)

AMsg(role, content, turn) == [role |-> role, content |-> content, turn |-> turn]

\* what the player types, what the eavesdropper forges, what a sub-analysis replies
InstructionTexts == {"m1", "m2"}

ForgedTexts == {"f1"}

JudgeReplies == {"one", "many"}

\* the three tasks, in the order in which they are submitted to the executor
Judges == <<"lore_leakage", "target_coordinates", "relative_offsets">>

JudgeSet == {"lore_leakage", "target_coordinates", "relative_offsets"}

Queued == [pc |-> "queued", convo |-> <<>>, retval |-> <<>>]

InitAgents ==
    /\ targeting_instructions = ""
    /\ ally_convo = <<>>
    /\ _convo = <<>>
    /\ executor = [w \in JudgeSet |-> Queued]
    /\ completed = <<>>
    /\ spoof_analysis = <<>>

\* the turn variables the sessions do not depend on
boardTurnVars == <<turn_calls, swept, verdict, fault>>

\* ally.setup(lore_context, openai_client), Enemy(), board.setup(...)
AgentsSetup ==
    /\ phase = "setup"
    /\ lore_context' = "lore"
    /\ phase' = "loop"
    /\ UNCHANGED <<is_injection_turn, fire_coordinates, turns_started, _event_history,
                   boardTurnVars, agentVars>>
    /\ UNCHANGED notAgentVars

\* the replay of one record: the `if ... in event` statements of the loop body
ReplayEvent(event, i) ==
    (IF "targeting_instructions" \in event.has
     THEN <<AMsg("user", <<event.targeting_instructions>>, i)>> ELSE <<>>)
    \o (IF "spoofed_targeting_instructions" \in event.has
        THEN <<AMsg("assistant", <<"We then injected", event.spoofed_targeting_instructions,
                                   "Rationale", event.spoof_explanation>>, i)>>
        ELSE <<>>)
    \o (IF "fired_coordinates" \in event.has
        THEN <<AMsg("system", IF event.fired_coordinates.none
                              THEN <<"chose to PASS">>
                              ELSE <<"fired at position">> \o repr(event.fired_coordinates),
                    i)>>
        ELSE <<>>)
    \o (IF "lore_belief" \in event.has
        THEN <<AMsg("assistant", <<IF event.lore_belief = "" THEN "(No notes provided.)"
                                   ELSE event.lore_belief>>, i)>>
        ELSE <<>>)

RECURSIVE ReplayFrom(_, _)
ReplayFrom(history, i) ==
    IF i > Len(history) THEN <<>>
    ELSE ReplayEvent(history[i], i) \o ReplayFrom(history, i + 1)

RECURSIVE ReplayDownFrom(_, _)
ReplayDownFrom(history, i) ==
    IF i < 1 THEN <<>>
    ELSE ReplayEvent(history[i], i) \o ReplayDownFrom(history, i - 1)

\* the records replayed from the newest to the oldest
ReplayNewestFirst(history) == ReplayDownFrom(history, Len(history))

\* `for event in self._event_history:`
Replay(history) == ReplayFrom(history, 1)

\* Enemy.start_turn after the append: a new session with the rules, the
\* replay when there is an earlier record, and the board of the present
EnemyOpens(history, n) ==
    <<AMsg("system", <<"RULES">>, n)>>
    \o (IF Len(history) > 1
        THEN <<AMsg("system", <<"REPLAY">>, n)>> \o Replay(history)
        ELSE <<>>)
    \o <<AMsg("system", <<"PRESENT", "BOARD">>, n)>>

\* the top of the loop: the flag flipped, ally.start_turn, enemy.start_turn
TurnStarts ==
    /\ phase = "loop"
    /\ turns_started < MaxReplayTurns
    /\ turns_started' = turns_started + 1
    /\ is_injection_turn' = OtherSource(is_injection_turn)
    /\ _event_history' = OpenEvent(_event_history)
    /\ _convo' = EnemyOpens(_event_history', turns_started')
    /\ targeting_instructions' = ""
    /\ phase' = "instructions"
    /\ UNCHANGED <<fire_coordinates, lore_context, boardTurnVars,
                   ally_convo, executor, completed, spoof_analysis>>
    /\ UNCHANGED notAgentVars

\* a genuine turn: targeting_instructions = input(...).strip(), or the word to quit
InstructionTyped(text) ==
    /\ phase = "instructions"
    /\ ~is_injection_turn
    /\ targeting_instructions' = text
    /\ phase' = IF text = "q" THEN "exit" ELSE "receiver"
    /\ fire_coordinates' = NoCoordinates
    /\ UNCHANGED <<is_injection_turn, lore_context, turns_started, _event_history,
                   boardTurnVars, ally_convo, _convo, executor, completed, spoof_analysis>>
    /\ UNCHANGED notAgentVars

\* an injection turn: Enemy.inject_spoofed_message, its two submits on the
\* session of the turn, the forged text and its rationale written to the record
inject_spoofed_message(forged) ==
    /\ phase = "instructions"
    /\ is_injection_turn
    /\ _convo' = _convo \o
          << AMsg("system", <<"INJECT">>, turns_started),
             AMsg("assistant", <<"plan">>, turns_started),
             AMsg("assistant", <<"json", forged, "why">>, turns_started) >>
    /\ _event_history' =
          [WriteEvent(_event_history, {"spoofed_targeting_instructions", "spoof_explanation"})
              EXCEPT ![Len(_event_history)].spoofed_targeting_instructions = forged,
                     ![Len(_event_history)].spoof_explanation = "why"]
    /\ targeting_instructions' = forged
    /\ phase' = "receiver"
    /\ fire_coordinates' = NoCoordinates
    /\ UNCHANGED <<is_injection_turn, lore_context, turns_started, boardTurnVars,
                   ally_convo, executor, completed, spoof_analysis>>
    /\ UNCHANGED notAgentVars

\* a session object kept from call to call
RetainedConversation(old) == old

\* convo = GptConversation(openai_client=self.openai_client)
NewConversation(old) == <<>>

\* Ally.receive_targeting_instructions up to the spoof check: a new session
\* with the rules, the lore context and the instruction, the first submit
\* and its reply; then SpoofChecker() and its three tasks handed to the executor
ReceiverOpensSession ==
    /\ phase = "receiver"
    /\ ally_convo' = NewConversation(ally_convo) \o
          << AMsg("system", <<"RULES", "8x8">>, turns_started),
             AMsg("system", <<"LORE CONTEXT", lore_context>>, turns_started),
             AMsg("user", <<"A new message", targeting_instructions>>, turns_started),
             AMsg("system", <<"DECODE">>, turns_started),
             AMsg("assistant", <<"reasoning", lore_context>>, turns_started) >>
    /\ executor' = [w \in JudgeSet |-> Queued]
    /\ completed' = <<>>
    /\ spoof_analysis' = <<>>
    /\ phase' = "spoofcheck"
    /\ UNCHANGED <<is_injection_turn, fire_coordinates, lore_context, turns_started,
                   _event_history, boardTurnVars, targeting_instructions, _convo>>
    /\ UNCHANGED notAgentVars

\* a session seeded with the shared narrative frame as well
_start_convo_framed(targeting_message, n) ==
    << AMsg("system", <<"RULES", "ROWS", "COLS">>, n),
       AMsg("system", <<lore_context>>, n),
       AMsg("user", <<"Here is the message", targeting_message>>, n) >>

\* SpoofChecker._start_convo: a new session with the rules, the size of the
\* board and the message
_start_convo(targeting_message, n) ==
    << AMsg("system", <<"RULES", "ROWS", "COLS">>, n),
       AMsg("user", <<"Here is the message", targeting_message>>, n) >>

\* a task of the executor begins: convo = self._start_convo(targeting_instructions)
JudgeStarts(w) ==
    /\ phase = "spoofcheck"
    /\ executor[w].pc = "queued"
    /\ executor' = [executor EXCEPT ![w].pc = "seeded",
                                    ![w].convo = _start_convo(targeting_instructions,
                                                              turns_started)]
    /\ UNCHANGED <<turnVars, targeting_instructions, ally_convo, _convo, completed,
                   spoof_analysis>>
    /\ UNCHANGED notAgentVars

\* convo.submit_developer_message(...): the question of the task and the reply
JudgeDiscusses(w) ==
    /\ phase = "spoofcheck"
    /\ executor[w].pc = "seeded"
    /\ executor' = [executor EXCEPT
          ![w].pc = "discussed",
          ![w].convo = @ \o << AMsg("developer", <<"QUESTION", w>>, turns_started),
                              AMsg("assistant", <<"discussion", w>>, turns_started) >>]
    /\ UNCHANGED <<turnVars, targeting_instructions, ally_convo, _convo, completed,
                   spoof_analysis>>
    /\ UNCHANGED notAgentVars

\* convo.submit(json_response=...), the fields of the reply formatted, return
JudgeReturns(w, reply) ==
    /\ phase = "spoofcheck"
    /\ executor[w].pc = "discussed"
    /\ executor' = [executor EXCEPT
          ![w].pc = "done",
          ![w].convo = Append(@, AMsg("assistant", <<"json", reply>>, turns_started)),
          ![w].retval = <<w, reply>>]
    /\ completed' = Append(completed, w)
    /\ UNCHANGED <<turnVars, targeting_instructions, ally_convo, _convo, spoof_analysis>>
    /\ UNCHANGED notAgentVars

\* the results taken as the tasks finish
JoinOrderAsCompleted(finished) == finished

\* lore_leakage_future.result(), target_coordinates_future.result(),
\* relative_offsets_future.result(): in the order of submission
JoinOrder(finished) == Judges

\* full_analysis: the three sections under their headings
full_analysis(first, second, third) ==
    <<"LORE LEAKAGE ANALYSIS:">> \o first
    \o <<"TARGET COORDINATES ANALYSIS:">> \o second
    \o <<"RELATIVE OFFSETS ANALYSIS:">> \o third

\* the end of the `with ThreadPoolExecutor` block: every task has finished;
\* SpoofChecker.receive_targeting_instructions returns the report
SpoofCheckJoins ==
    /\ phase = "spoofcheck"
    /\ \A w \in JudgeSet : executor[w].pc = "done"
    /\ LET order == JoinOrder(completed)
       IN  spoof_analysis' = full_analysis(executor[order[1]].retval,
                                           executor[order[2]].retval,
                                           executor[order[3]].retval)
    /\ phase' = "decision"
    /\ UNCHANGED <<is_injection_turn, fire_coordinates, lore_context, turns_started,
                   _event_history, boardTurnVars, targeting_instructions, ally_convo,
                   _convo, executor, completed>>
    /\ UNCHANGED notAgentVars

\* the rest of Ally.receive_targeting_instructions: the report added to the
\* session, the two submits, and the coordinates, None, or the ValueError of
\* a col and row that are no coordinate, which main() catches
ReceiverDecides(result) ==
    /\ phase = "decision"
    /\ ally_convo' = ally_convo \o
          << AMsg("system", <<"HALLMARKS">>, turns_started),
             AMsg("system", <<"ANALYSIS">> \o spoof_analysis, turns_started),
             AMsg("system", <<"What do you think?">>, turns_started),
             AMsg("assistant", <<"judgement", lore_context>>, turns_started),
             AMsg("assistant", <<"json", result>>, turns_started) >>
    /\ fire_coordinates' = IF result = "fire" THEN Coordinates(0, 0) ELSE NoCoordinates
    /\ phase' = IF result # "ValueError" /\ Overhears(is_injection_turn)
                THEN "eavesdropper" ELSE "endgame"
    /\ UNCHANGED <<is_injection_turn, lore_context, turns_started, _event_history,
                   boardTurnVars, targeting_instructions, _convo, executor, completed,
                   spoof_analysis>>
    /\ UNCHANGED notAgentVars

\* Enemy.overhear_targeting_instructions: the instruction written to the
\* record and added to the session, the submits, and the belief notes when
\* a cell was chosen
overhear_targeting_instructions(located) ==
    /\ phase = "eavesdropper"
    /\ LET h == [WriteEvent(_event_history, {"targeting_instructions"})
                    EXCEPT ![Len(_event_history)].targeting_instructions =
                              targeting_instructions]
       IN  _event_history' =
              IF located
              THEN [WriteEvent(h, {"lore_belief"}) EXCEPT ![Len(h)].lore_belief = "overheard"]
              ELSE h
    /\ _convo' = _convo \o
          << AMsg("system", <<"OVERHEARD">>, turns_started),
             AMsg("user", <<targeting_instructions>>, turns_started),
             AMsg("system", <<"What is the lore context?">>, turns_started),
             AMsg("assistant", <<"guess">>, turns_started) >>
          \o (IF located
              THEN << AMsg("assistant", <<"json", "overheard">>, turns_started),
                      AMsg("assistant", <<"recap">>, turns_started) >>
              ELSE <<>>)
    /\ phase' = "endgame"
    /\ UNCHANGED <<is_injection_turn, fire_coordinates, lore_context, turns_started,
                   boardTurnVars, targeting_instructions, ally_convo, executor, completed,
                   spoof_analysis>>
    /\ UNCHANGED notAgentVars

\* board.check_endgame(): Win and Lose leave the loop
GameDecided(endgame) ==
    /\ phase = "endgame"
    /\ phase' = IF LeavesLoop(endgame) THEN "exit" ELSE "observe"
    /\ UNCHANGED <<is_injection_turn, fire_coordinates, lore_context, turns_started,
                   _event_history, boardTurnVars, agentVars>>
    /\ UNCHANGED notAgentVars

\* Enemy.observe_opponent_action(fire_coordinates): the outcome written to
\* the record and told to the session, the submits, the belief notes
observe_opponent_action ==
    /\ phase = "observe"
    /\ _event_history' =
          [WriteEvent(_event_history, {"fired_coordinates", "lore_belief"})
              EXCEPT ![Len(_event_history)].fired_coordinates = fire_coordinates,
                     ![Len(_event_history)].lore_belief = "observed"]
    /\ _convo' = _convo \o
          << AMsg("system", IF fire_coordinates.none THEN <<"chose to PASS">>
                            ELSE <<"fired at position">> \o repr(fire_coordinates),
                  turns_started),
             AMsg("assistant", <<"observed">>, turns_started) >>
    /\ phase' = "loop"
    /\ UNCHANGED <<is_injection_turn, fire_coordinates, lore_context, turns_started,
                   boardTurnVars, targeting_instructions, ally_convo, executor, completed,
                   spoof_analysis>>
    /\ UNCHANGED notAgentVars

NextA ==
    \/ AgentsSetup
    \/ TurnStarts
    \/ \E text \in InstructionTexts \cup {"q"} : InstructionTyped(text)
    \/ \E forged \in ForgedTexts : inject_spoofed_message(forged)
    \/ ReceiverOpensSession
    \/ \E w \in JudgeSet : JudgeStarts(w)
    \/ \E w \in JudgeSet : JudgeDiscusses(w)
    \/ \E w \in JudgeSet, reply \in JudgeReplies : JudgeReturns(w, reply)
    \/ SpoofCheckJoins
    \/ \E result \in {"fire", "pass", "ValueError"} : ReceiverDecides(result)
    \/ \E located \in BOOLEAN : overhear_targeting_instructions(located)
    \/ \E endgame \in {"None", "win", "lose"} : GameDecided(endgame)
    \/ observe_opponent_action

----------------------------------------------------------------------------
(* Specifications *)

InitRest == InitChaff /\ InitTurn /\ InitSchemaIdle /\ InitAgents

Init == InitSession /\ InitDecodeIdle /\ InitBoardIdle /\ InitRest /\ InitCoordIdle

Spec == Init /\ [][Next]_vars

InitD == InitDecode /\ InitSession /\ openai_client = "client"
         /\ SYSTEM_ANNOUNCEMENT_MESSAGE = <<>> /\ InitBoardIdle /\ InitRest /\ InitCoordIdle

SpecDecode == InitD /\ [][NextD]_vars

InitB == InitBoard /\ InitSession /\ openai_client = "client"
         /\ SYSTEM_ANNOUNCEMENT_MESSAGE = <<>> /\ InitDecodeIdle /\ InitRest /\ InitCoordIdle

SpecBoard == InitB /\ [][NextB]_vars

SpecShield == InitB /\ [][NextS]_vars

SpecTurn == InitB /\ [][NextT]_vars

InitC == InitCoord /\ InitSession /\ openai_client = "client"
         /\ SYSTEM_ANNOUNCEMENT_MESSAGE = <<>> /\ InitDecodeIdle /\ InitBoardIdle /\ InitRest

SpecCoord == InitC /\ [][NextC]_vars

InitF == InitSchema /\ InitSession /\ openai_client = "client"
         /\ SYSTEM_ANNOUNCEMENT_MESSAGE = <<>> /\ InitDecodeIdle /\ InitBoardIdle
         /\ InitChaff /\ InitTurn /\ InitCoordIdle /\ InitAgents

SpecSchema == InitF /\ [][NextF]_vars

SpecAgents == InitB /\ [][NextA]_vars

----------------------------------------------------------------------------
(* Properties of the retry loop (Spec) *)

\* C1: one submit makes at most GPT_RETRY_LIMIT dispatches to the service;
\* when the last permitted dispatch has been made and handled, the call has
\* returned a value or raised.
C1_AttemptCeiling ==
    /\ dispatches <= GPT_RETRY_LIMIT
    /\ (dispatches = GPT_RETRY_LIMIT /\ pc # "sleep")
          => (pc = "idle" /\ outcome.kind \in {"returned", "raised"})

\* a call that used all its attempts, on transient and on parse failures
C1_Witness ==
    /\ dispatches = GPT_RETRY_LIMIT /\ pc = "idle" /\ outcome.kind = "raised"
    /\ efail.type = "OpenAIError" /\ llmresponse.status = "received"

\* C2: on the structured path, when the reply of attempt k can be parsed
\* (the k-1 attempts before it having failed), submit is over: it returned
\* the value parsed from that reply, raised nothing, and dispatched k times.
C2_ReturnsFirstParseable ==
    (Truthy(json_response) /\ llmresponse.status = "received"
        /\ raw_decode(strip(llmresponse.output_text)).ok)
    => /\ pc = "idle"
       /\ outcome = Returned(PyObj(raw_decode(strip(llmresponse.output_text)).obj))
       /\ dispatches = iretry + 1

\* success on the third attempt, the second having been a transient failure
C2_Witness ==
    /\ Truthy(json_response) /\ outcome.kind = "returned"
    /\ iretry = 2 /\ dispatches = 3 /\ efail = Failure("OpenAIError", 2)

\* C3: the step in which submit raises out of the retry loop raises the
\* failure of the last attempt (a transient one when the step leaves the
\* backoff sleep, a parse failure otherwise), the last attempt being attempt
\* GPT_RETRY_LIMIT; the generic error is raised only when nothing was dispatched.
C3_RaisesLastFailure ==
    [][ (pc \in {"attempt", "sleep"} /\ outcome'.kind = "raised")
        => /\ outcome'.error.type = "ValueError:unknown" => dispatches' = 0
           /\ dispatches' > 0
                => outcome'.error =
                      Failure(IF pc = "sleep" THEN "OpenAIError" ELSE "JSONDecodeError",
                              GPT_RETRY_LIMIT) ]_vars

\* the transient failure of the last attempt raised, a parse failure having
\* come before it
C3_Witness ==
    /\ outcome.kind = "raised" /\ llmresponse.status = "received"
    /\ outcome.error = Failure("OpenAIError", GPT_RETRY_LIMIT)

\* C4: an attempt that fails with a transient failure goes into the backoff
\* sleep before anything else; the sleep is a single delay, after which comes
\* the next attempt (or the end of the call), not another delay; an attempt
\* that fails to parse goes on to the next attempt without entering the sleep.
C4_BackoffOnlyAfterTransient ==
    [][ /\ (pc = "attempt" /\ efail' = Failure("OpenAIError", iretry + 1))
             => (pc' = "sleep" /\ iretry' = iretry)
        /\ (pc = "sleep")
             => (pc' \in {"attempt", "idle"} /\ iretry' = iretry + 1
                 /\ dispatches' = dispatches)
        /\ (pc = "attempt" /\ efail' = Failure("JSONDecodeError", iretry + 1))
             => (pc' \in {"attempt", "idle"} /\ iretry' = iretry + 1) ]_vars

\* the third attempt is due: the first failed to parse and went straight on,
\* the second failed transiently and was slept on
C4_Witness ==
    /\ pc = "attempt" /\ iretry = 2 /\ dispatches = 2
    /\ efail = Failure("OpenAIError", 2) /\ llmresponse.status = "received"

\* C5: a response that carries an error indicator or an incomplete flag is
\* never the response whose text or parsed value submit returns.
C5_FlaggedResponseNotReturned ==
    (outcome.kind = "returned" /\ llmresponse.status = "received")
        => (~llmresponse.error /\ ~llmresponse.incomplete)

----------------------------------------------------------------------------
(* Properties of the session (Spec) *)

MarkerIndexes(msgs) == { i \in 1..Len(msgs) : IsDatetimeMessage(msgs[i]) }

HasAnnouncement == strip(SYSTEM_ANNOUNCEMENT_MESSAGE) # <<>>

\* C6: every message list dispatched to the service holds exactly one
\* freshness marker, at the head, preceded only by the announcement when one
\* is configured.
C6_OneMarkerAtHead ==
    dispatches > 0
    => /\ MarkerIndexes(messages) = {IF HasAnnouncement THEN 2 ELSE 1}
       /\ HasAnnouncement => messages[1] = Msg("system", strip(SYSTEM_ANNOUNCEMENT_MESSAGE))
       /\ Len(messages) = Len(snapshot) - Cardinality(MarkerIndexes(snapshot))
                             + (IF HasAnnouncement THEN 2 ELSE 1)

\* a dispatch of a session that held an old marker, after an earlier submission
C6_Witness ==
    /\ dispatches > 0 /\ last_reply # PyNone
    /\ MarkerIndexes(snapshot) # {}

\* C7: every step but a reset leaves the old message sequence a prefix of
\* the new one; a reset leaves exactly the messages given.
C7_AppendOnly ==
    [][ IF op'.name = "assign_messages"
        THEN convo' = op'.arg
        ELSE IsPrefix(convo, convo') ]_vars

\* a reset of a session that a submit had extended
C7_Witness ==
    /\ op.name = "assign_messages" /\ Len(convo) = 2 /\ last_reply # PyNone

\* C9 as stated: after a successful structured submit one assistant message
\* was appended, holding the reply text as received.
C9_RawReplyAppended ==
    (outcome.kind = "returned" /\ Truthy(json_response))
    => \/ convo = Append(snapshot, Msg("assistant", llmresponse.output_text))
       \/ convo = Append(snapshot, Msg("assistant", strip(llmresponse.output_text)))

\* C9 amended: after a successful structured submit one assistant message
\* was appended, holding the text form of the returned value:
\* json.dumps(value, indent=2) of a dict, str(value) of anything else.
C9_SerializedValueAppended ==
    (outcome.kind = "returned" /\ Truthy(json_response))
    => /\ outcome.value.type = "json"
       /\ convo = Append(snapshot,
                         Msg("assistant",
                             IF outcome.value.obj.t = "obj"
                             THEN json_dumps_indent2(outcome.value.obj)
                             ELSE PyStr(outcome.value.obj)))

\* the appended text differs from the reply: text after the first value is gone
C9_Witness ==
    /\ outcome.kind = "returned" /\ Truthy(json_response)
    /\ Len(convo) = Len(snapshot) + 1
    /\ convo[Len(convo)].content # strip(llmresponse.output_text)

----------------------------------------------------------------------------
(* Properties of the reply decoding (SpecDecode) *)

\* compact JSON text of a value
RECURSIVE JsonText(_)
RECURSIVE JsonJoin(_)
JsonJoin(vs) ==
    IF vs = <<>> THEN <<>>
    ELSE IF Len(vs) = 1 THEN JsonText(vs[1])
    ELSE JsonText(vs[1]) \o <<",">> \o JsonJoin(Tail(vs))

JsonText(v) ==
    IF v.t = "num" THEN IntStr(v.n)
    ELSE IF v.t = "arr" THEN <<"[">> \o JsonJoin(v.items) \o <<"]">>
    ELSE <<"{", "}">>

AtomValues == {Num(1), Num(11), Arr(<<>>), EmptyDict}

\* the values whose text fits a reply: the atoms and the lists of up to two atoms
JsonValues == AtomValues \cup { Arr(vs) : vs \in UNION { [1..k -> AtomValues] : k \in 1..2 } }

\* the text t begins with the value text p, and the value ends there: a number
\* is not continued by a further digit
BeginsWithValue(t, p) ==
    /\ IsPrefix(p, t)
    /\ ~(IsDigit(p[Len(p)]) /\ IsDigit(CharAt(t, Len(p) + 1)))

\* C8: on the structured path a reply that begins with a well-formed JSON
\* value decodes to that first value, whatever follows it: more values or
\* any other text never make the decoding fail.
C8_FirstValueOnly ==
    (decoded.kind # "none" /\ Truthy(decoded.jr))
    => \A v \in JsonValues :
          BeginsWithValue(strip(output_text), JsonText(v))
             => (decoded.kind = "return" /\ decoded.value = PyObj(v))

\* a reply made of two concatenated values was decoded to the first
C8_Witness ==
    /\ Truthy(decoded.jr) /\ decoded.kind = "return"
    /\ \E v, w \in JsonValues :
          /\ v.t # "num"
          /\ strip(output_text) = JsonText(v) \o JsonText(w)
          /\ decoded.value = PyObj(v)

----------------------------------------------------------------------------
(* Properties of the Board (SpecBoard) *)

PlacedKind(name) == IF name = "place_ship" THEN "ship" ELSE "hostage"

\* C10: place_ship / place_hostage return False and leave the board as it
\* was when the coordinate is out of bounds or the cell is not empty;
\* otherwise they set exactly that cell to the kind placed and return True.
C10_Place ==
    [][ call'.name \in {"place_ship", "place_hostage"}
        => IF \/ call'.row \notin RowIndexes
              \/ call'.col \notin ColIndexes
              \/ grid[call'.row][call'.col] # "empty"
           THEN ret' = "False" /\ grid' = grid /\ ships' = ships /\ hostages' = hostages
           ELSE /\ ret' = "True"
                /\ grid' = [r \in RowIndexes |-> [c \in ColIndexes |->
                              IF r = call'.row /\ c = call'.col
                              THEN PlacedKind(call'.name) ELSE grid[r][c]]] ]_vars

\* a placement refused on an occupied cell, and an accepted one beside it
C10_Witness ==
    /\ call.name = "place_ship" /\ ret = "False"
    /\ call.row \in RowIndexes /\ call.col \in ColIndexes
    /\ grid[call.row][call.col] = "hostage"
    /\ \E r \in RowIndexes, c \in ColIndexes : grid[r][c] = "ship"

\* C11: a fire at a cell that holds a ship returns Ship, lowers
\* ships_remaining() by exactly 1 and leaves hostages_remaining() as it was;
\* a fire at the same coordinate right after it returns Empty and changes
\* neither count.
C11_FireShip ==
    [][ /\ ( /\ call'.name = "fire"
             /\ call'.row \in RowIndexes /\ call'.col \in ColIndexes
             /\ grid[call'.row][call'.col] = "ship" )
           => /\ ret' = "ship"
              /\ ships_remaining' = ships_remaining - 1
              /\ hostages_remaining' = hostages_remaining
        /\ ( /\ call.name = "fire" /\ ret = "ship"
             /\ call'.name = "fire" /\ call'.row = call.row /\ call'.col = call.col )
           => /\ ret' = "empty"
              /\ ships_remaining' = ships_remaining
              /\ hostages_remaining' = hostages_remaining ]_vars

\* a ship was hit while a hostage stayed on the board
C11_Witness ==
    /\ call.name = "fire" /\ ret = "ship"
    /\ grid[call.row][call.col] = "empty"
    /\ hostages_remaining = 1

CellsHolding(kind) == { p \in RowIndexes \X ColIndexes : grid[p[1]][p[2]] = kind }

\* C16: whatever place, fire and move_entity operations have run,
\* ships_remaining() is the number of grid cells that hold a ship and
\* hostages_remaining() the number of grid cells that hold a hostage.
C16_CountsMatchScan ==
    /\ ships_remaining = Cardinality(CellsHolding("ship"))
    /\ hostages_remaining = Cardinality(CellsHolding("hostage"))

\* a hostage was moved to another cell
C16_Witness ==
    /\ call.name = "move_entity" /\ ret = "True"
    /\ hostages_remaining = 1 /\ ships_remaining = 0
    /\ grid[call.row][call.col] = "empty"

----------------------------------------------------------------------------
(* Properties of the shield overlay and the endgame (SpecShield) *)

C13_OneShield ==
    [][ /\ Cardinality(chaff') <= 1
        /\ ( /\ call'.name = "deploy_chaff"
             /\ (chaff # {} \/ ~_is_valid_position(call'.row, call'.col)) )
           => (ret' = "False" /\ chaff' = chaff) ]_vars

\* a second shield was refused on the cell beside the shielded one
C13_Witness ==
    /\ call.name = "deploy_chaff" /\ ret = "False"
    /\ _is_valid_position(call.row, call.col)
    /\ chaff # {} /\ Position(call.row, call.col) \notin chaff

\* C15: check_endgame returns Win in every state with ships_remaining() = 0,
\* also when hostages_remaining() = 0; it returns Lose only when ships
\* remain and no hostage remains; otherwise it returns InProgress.
C15_WinFirst ==
    call.name = "check_endgame"
    => /\ ships_remaining = 0 => ret = "win"
       /\ ret = "lose" => (ships_remaining > 0 /\ hostages_remaining = 0)
       /\ (ships_remaining > 0 /\ hostages_remaining > 0) => ret = "None"

\* the endgame was evaluated on a board with neither a ship nor a hostage
C15_Witness ==
    /\ call.name = "check_endgame" /\ ret = "win"
    /\ ships_remaining = 0 /\ hostages_remaining = 0

----------------------------------------------------------------------------
(* Properties of the game loop (SpecTurn) *)

InTurn == {"instructions", "receiver", "eavesdropper", "resolve", "endgame", "observe",
           "exit", "crashed"}

\* C14: in every turn start_turn is the first Board operation called and is
\* called exactly once, so before any deploy_chaff or fire of the turn;
\* right after it no shield is active; and a shield that is active in a turn
\* was deployed in that turn, never in an earlier one.
C14_StartTurnOncePerTurn ==
    /\ phase \in InTurn
          => /\ turn_calls # <<>> /\ turn_calls[1] = "start_turn"
             /\ Cardinality({ i \in 1..Len(turn_calls) : turn_calls[i] = "start_turn" }) = 1
    /\ phase = "instructions" => chaff = {}
    /\ (phase \in InTurn /\ chaff # {})
          => \E i \in 1..Len(turn_calls) : turn_calls[i] = "deploy_chaff"

\* a turn began with the shield of the turn before still in place, and
\* start_turn cleared it
C14_Witness ==
    /\ phase = "instructions" /\ is_injection_turn
    /\ swept # {} /\ chaff = {}

----------------------------------------------------------------------------
(* Properties of the coordinate texts (SpecCoord) *)

\* value.strip().upper()
Normalized == upper(strip(value))

\* the digits of a number text: what is left of it without the blanks
\* around it and without its sign
LiteralDigits(t) ==
    IF strip(t) # <<>> /\ Head(strip(t)) \in {"+", "-"} THEN Tail(strip(t)) ELSE strip(t)

\* t reads as an integer: optional blanks, an optional sign, digits, single
\* underscores allowed between two digits
IsIntLiteral(t) ==
    LET d == LiteralDigits(t)
    IN  /\ d # <<>>
        /\ \A i \in 1..Len(d) : IsDigit(d[i]) \/ d[i] = "_"
        /\ IsDigit(d[1]) /\ IsDigit(d[Len(d)])
        /\ \A i \in 1..(Len(d) - 1) : ~(d[i] = "_" /\ d[i + 1] = "_")

\* the integer t reads as is less than 1: it is negative or all its digits are 0
LiteralBelowOne(t) ==
    \/ Head(strip(t)) = "-"
    \/ \A i \in 1..Len(LiteralDigits(t)) : LiteralDigits(t)[i] \in {"0", "_"}

\* C17: for every text from_string accepts, the repr of the result is the
\* trimmed, upper-cased text; and for every Coordinates object with
\* row >= 0 and a column within A-Z, from_string of its repr is that object.
C17_RoundTrip ==
    /\ (origin = "text" /\ parsed.ok /\ shown # NoText) => shown = Normalized
    /\ ( /\ origin = "coordinates" /\ parsed # NotParsed
         /\ coordinates.row >= 0 /\ coordinates.col \in 0..25 )
       => (parsed.ok /\ parsed.coordinates = coordinates)

\* C18 as stated: from_string raises, and gives no coordinate, whenever the
\* text is not a letter followed by an integer, the letter is beyond the
\* last column of the board, or the number is less than 1.
C18_ParseFailsOutsideBoard ==
    (origin = "text" /\ parsed # NotParsed)
    => ( ( \/ Len(Normalized) < 2
           \/ ~IsUpper(Normalized[1])
           \/ ~IsIntLiteral(Tail(Normalized))
           \/ Ord(Normalized[1]) - Ord("A") >= BoardCols
           \/ LiteralBelowOne(Tail(Normalized)) )
         => parsed = ParseError )

\* C18 amended: from_string raises ValueError, and gives no coordinate,
\* whenever the trimmed, upper-cased text is not a letter A-Z followed by an
\* integer or the number is less than 1; every other text is accepted,
\* whatever the number of columns of the board.
C18_ParseFailsOutsideAZ ==
    (origin = "text" /\ parsed # NotParsed)
    => IF \/ Len(Normalized) < 2
          \/ ~IsUpper(Normalized[1])
          \/ ~IsIntLiteral(Tail(Normalized))
          \/ LiteralBelowOne(Tail(Normalized))
       THEN parsed = ParseError
       ELSE parsed.ok /\ parsed.coordinates.col = Ord(Normalized[1]) - Ord("A")

\* a well-formed text with the number 0 was refused
C18_Witness ==
    /\ origin = "text" /\ parsed = ParseError
    /\ Len(Normalized) >= 2 /\ IsUpper(Normalized[1])
    /\ IsIntLiteral(Tail(Normalized)) /\ LiteralBelowOne(Tail(Normalized))

----------------------------------------------------------------------------
(* Properties of the schema compiler (SpecSchema) *)

\* C19: compiling is deterministic and pure: the objects JSONSchemaFormat
\* returned for the same heuristic input are the same tree, also when one
\* of them has been submitted in between; and a submit leaves the object
\* its caller passed as it was compiled: the text _gpt_submit appends to
\* the description goes into the request's own copy only.
C19_CompilePure ==
    /\ \A i, j \in 1..Len(formats) : formats[i] = formats[j]
    /\ \A i \in 1..Len(formats) :
          formats[i].description = (IF description = "" THEN <<>> ELSE <<description>>)
    /\ (openai_text_param # NoFormat /\ description # "")
       => openai_text_param.description = <<description, NO_UNICODE>>

\* the input was compiled twice into a tree with properties, and a submit
\* has extended the description of its copy
C19_Witness ==
    /\ Len(formats) = 2
    /\ formats[1].schema.props # <<>>
    /\ openai_text_param.description = <<"D", NO_UNICODE>>
    /\ openai_text_param.schema = formats[2].schema

\* all nodes of a compiled tree
RECURSIVE NodesOf(_)
NodesOf(node) ==
    {node}
    \cup UNION {NodesOf(node.props[i]) : i \in 1..Len(node.props)}
    \cup UNION {NodesOf(node.items[i]) : i \in 1..Len(node.items)}

\* C20: the root of a compiled schema is an object node; a root that is
\* not an object is wrapped as the single property named after the schema
\* ("schema" when the name is empty) with required = [name]; and every
\* object node of the tree, at any depth, lists all its property keys as
\* required and disallows additional properties.
C20_RootObject ==
    \A i \in 1..Len(formats) :
        LET root == formats[i].schema
            nm == IF name_arg = "" THEN "schema" ELSE name_arg
        IN  /\ root.type = "object"
            /\ convresult.type # "object"
               => /\ root.propkeys = <<nm>>
                  /\ root.required = <<nm>>
                  /\ root.props = <<convresult>>
            /\ \A n \in NodesOf(root) :
                  n.type = "object"
                  => /\ {"required", "additionalProperties", "properties"} \subseteq n.has
                     /\ n.required = n.propkeys
                     /\ n.additionalProperties = FALSE

\* an array root was wrapped under the schema's name, and its items are an
\* object node one level further down
C20_Witness ==
    /\ Len(formats) >= 1
    /\ name_arg = "n"
    /\ convresult.type = "array"
    /\ formats[1].schema.required = <<"n">>
    /\ formats[1].schema.props[1].items[1].type = "object"
    /\ formats[1].schema.props[1].items[1].required = <<"j">>

\* C21: every node of a compiled schema has exactly one type tag, an enum
\* list appears only on string nodes, and the numeric bounds minValue and
\* maxValue appear only on integer or number nodes.
C21_CompatibleAttachments ==
    \A i \in 1..Len(formats) :
        \A n \in NodesOf(formats[i].schema) :
            /\ n.type \in {"object", "array", "string", "integer", "number", "boolean"}
            /\ "enum" \in n.has => n.type = "string"
            /\ (n.has \cap {"minValue", "maxValue"}) # {} => n.type \in {"integer", "number"}

\* a pair of two numbers
IsMinMaxPair(v) ==
    v.k = "tuple" /\ Len(v.items) = 2 /\ IsNumber(v.items[1]) /\ IsNumber(v.items[2])

\* C22: when the schema is a tuple leaf that bundles a (min, max) pair of
\* numbers with an int or float placeholder (or with no placeholder, the
\* type then being inferred from the pair) and at most a description, the
\* compiled node is an integer or number node that carries both minValue
\* and maxValue.
C22_RangeAttached ==
    ( /\ Len(formats) >= 1
      /\ schema.k = "tuple"
      /\ \E i \in 1..Len(schema.items) : IsMinMaxPair(schema.items[i])
      /\ \A i \in 1..Len(schema.items) :
            \/ IsMinMaxPair(schema.items[i])
            \/ schema.items[i] \in {TypeObj("int"), TypeObj("float")}
            \/ schema.items[i].k = "str" /\ schema.items[i].s # "" )
    => /\ convresult.type \in {"integer", "number"}
       /\ {"minValue", "maxValue"} \subseteq convresult.has

----------------------------------------------------------------------------
(* Properties of the turn orchestration of main() (SpecTurn) *)

\* C23: whenever the firing decision of the receiver marks the instruction
\* as an injection, the receiver yields no coordinate and fire is not
\* called on the board in that turn, whatever its other fields say.
C23_InjectionVerdictHoldsFire ==
    (~verdict.none /\ verdict.is_injection_attack)
    => /\ fire_coordinates.none
       /\ \A i \in 1..Len(turn_calls) : turn_calls[i] # "fire"

\* C24: in a turn where the receiver abstains, the turn goes from its
\* verdict directly to endgame evaluation: no shield is deployed, and at
\* endgame evaluation the cells and the shield are as start_turn left them.
C24_AbstainSkipsShield ==
    (phase = "endgame" /\ ~verdict.none /\ ~verdict.fire_or_not)
    => /\ turn_calls = <<"start_turn">>
       /\ chaff = {}

\* C25: a shield is deployed only in a turn that is not an injection turn
\* and only while more than one ship remains: when the fire is about to be
\* resolved in an injection turn, or in a turn with exactly one ship, no
\* shield is active.
C25_ShieldOnlyGenuineManyShips ==
    phase = "resolve"
    => /\ (is_injection_turn \/ ships_remaining = 1) => chaff = {}
       /\ (\E i \in 1..Len(turn_calls) : turn_calls[i] = "deploy_chaff")
          => (~is_injection_turn /\ ships_remaining > 1)

\* the eavesdropper overheard a genuine turn with one ship left and
\* deployed nothing
C25_Witness ==
    /\ phase = "resolve" /\ ~is_injection_turn
    /\ ships_remaining = 1
    /\ "targeting_instructions" \in _event_history[Len(_event_history)].has
    /\ chaff = {}

\* C26: when a session submit in any phase of a turn runs out of retries,
\* only that turn is aborted: the game loop keeps running.
C26_ExhaustedRetriesAbortTurnOnly ==
    fault.cause = "exhausted" => phase # "crashed"

\* C27: an agent operation invoked before its required setup is fatal: the
\* run terminates instead of going on with the turn as a pass.
C27_PreconditionFatal ==
    fault.cause = "precondition" => phase = "crashed"

\* C28: when the column and row of the receiver's decision are no valid
\* coordinate text, the failure stays in that turn: fire is not called, the
\* board and the shield stay as start_turn left them, and the game neither
\* crashes nor ends.
C28_BadCoordinateConfined ==
    (fault.cause = "coordinate" /\ fault.at = "receiver")
    => /\ phase \in {"resolve", "endgame", "observe", "loop"}
       /\ fire_coordinates.none
       /\ turn_calls \in {<<"start_turn">>, <<"start_turn", "check_endgame">>}
       /\ chaff = {}

\* the receiver decided to fire at a text that is no coordinate, and the
\* turn went through to the top of the loop
C28_Witness ==
    /\ fault = Fault("ValueError", "coordinate", "receiver")
    /\ verdict.fire_or_not
    /\ phase = "loop"

\* C29: check_endgame is consulted once, at the end of every turn; when it
\* returns Win or Lose the loop is left and nothing happens after that; when
\* it returns None the eavesdropper observes and control goes back to the
\* top of the loop, which is reached from nowhere else.
C29_EndgameDecidesLoop ==
    [][ /\ phase # "exit"
        /\ phase = "endgame"
           => /\ turn_calls' = Append(turn_calls, "check_endgame")
              /\ ret' \in {"win", "lose"} => phase' = "exit"
              /\ ret' \notin {"win", "lose"} => phase' = "observe"
        /\ phase = "observe"
           => /\ phase' \in {"loop", "crashed"}
              /\ UNCHANGED <<boardVars, chaff>>
        /\ (phase' = "loop" /\ phase # "setup")
           => /\ phase = "observe"
              /\ ret = "None"
              /\ turn_calls[Len(turn_calls)] = "check_endgame"
              /\ Cardinality({i \in 1..Len(turn_calls) : turn_calls[i] = "check_endgame"}) = 1
      ]_vars

\* the first turn ended in progress, the second one with the game lost
C29_Witness ==
    /\ phase = "exit" /\ ret = "lose"
    /\ turns_started = 2

\* C30: the event history of the eavesdropper is append-only: each turn
\* that starts appends exactly one empty record, nothing else changes its
\* length, so it holds as many records as turns have started; the records
\* of earlier turns stay as they are and the current one only gains keys.
C30_HistoryAppendOnly ==
    [][ LET h == _event_history
            h2 == _event_history'
        IN  /\ Len(h2) = turns_started'
            /\ IF turns_started' = turns_started + 1
               THEN h2 = Append(h, EmptyEvent)
               ELSE /\ turns_started' = turns_started
                    /\ Len(h2) = Len(h)
                    /\ \A i \in 1..(Len(h) - 1) : h2[i] = h[i]
                    /\ Len(h) >= 1 => h[Len(h)].has \subseteq h2[Len(h)].has
      ]_vars

\* two records: the one of a genuine turn, fully written, and the one of
\* the injection turn after it
C30_Witness ==
    /\ Len(_event_history) = 2
    /\ {"targeting_instructions", "fired_coordinates", "lore_belief"}
          \subseteq _event_history[1].has
    /\ "spoofed_targeting_instructions" \in _event_history[2].has

----------------------------------------------------------------------------
(* Properties of the retry loop and of a failed submit (Spec) *)

\* C38: every backoff delay inside submit is followed by another dispatch
\* attempt: no time.sleep is followed by the raise of the failure.
C38_BackoffThenDispatch ==
    [][ pc = "sleep" => pc' = "attempt" ]_vars

\* C39: a submit call that raises after exhausting its retries leaves the
\* session as it was before the call: the message sequence and last_reply
\* are the ones the call found.
C39_FailedSubmitLeavesSession ==
    ( /\ pc = "idle"
      /\ op.name \in {"submit", "submit_message"}
      /\ outcome.kind = "raised"
      /\ outcome.error.type \in {"OpenAIError", "JSONDecodeError"} )
    => /\ convo = op.arg.messages
       /\ last_reply = op.arg.last_reply

----------------------------------------------------------------------------
(* Properties of the records and of the sources of a turn (SpecTurn) *)

\* the record of the current turn
ThisEvent == _event_history[Len(_event_history)]

\* C31: in every turn that runs to its end, the turn that ends the game
\* included, the record of the turn holds the outcome (the fired coordinate
\* or the pass) and the belief notes written on observing it.
C31_RecordHoldsOutcome ==
    ( /\ turns_started >= 1
      /\ \/ phase = "loop"
         \/ phase = "exit" /\ ret \in {"win", "lose"} )
    => /\ "fired_coordinates" \in ThisEvent.has
       /\ ThisEvent.fired_coordinates = fire_coordinates
       /\ ThisEvent.lore_belief = "observed"

\* C31 (amended): in every turn that runs to its end with the game going
\* on, the record of the turn holds the outcome and the belief notes written
\* on observing it; the turn that ends the game is not observed.
C31_RecordHoldsOutcomeWhenGameGoesOn ==
    /\ (turns_started >= 1 /\ phase = "loop")
       => /\ {"fired_coordinates", "lore_belief"} \subseteq ThisEvent.has
          /\ ThisEvent.fired_coordinates = fire_coordinates
          /\ ThisEvent.lore_belief = "observed"
    /\ (phase = "exit" /\ ret \in {"win", "lose"})
       => "fired_coordinates" \notin ThisEvent.has

\* an injection turn that ended with a pass and was observed
C31_Witness ==
    /\ phase = "loop" /\ turns_started = 2
    /\ "fired_coordinates" \in ThisEvent.has
    /\ ThisEvent.fired_coordinates = NoCoordinates
    /\ ThisEvent.lore_belief = "observed"

\* C36: one instruction source is active in each turn and the sources
\* alternate: the first turn is genuine, every second turn is an injection
\* turn, whatever failed in the turns before; the forged message is written
\* in injection turns only, and the flag changes only at the top of the loop.
C36_SourcesAlternate ==
    [][ /\ turns_started' >= 1 => (is_injection_turn' <=> turns_started' % 2 = 0)
        /\ turns_started' = turns_started => is_injection_turn' = is_injection_turn
        /\ phase' \in {"receiver", "eavesdropper", "resolve", "endgame", "observe"}
           => ("spoofed_targeting_instructions" \in _event_history'[Len(_event_history')].has
               <=> is_injection_turn')
        /\ (phase = "instructions" /\ phase' = "exit") => ~is_injection_turn
      ]_vars

\* an injection turn follows a genuine turn whose receiver failed, so that
\* the eavesdropper never overheard it
C36_Witness ==
    /\ turns_started = 2 /\ is_injection_turn /\ phase = "receiver"
    /\ "targeting_instructions" \notin _event_history[1].has
    /\ "fired_coordinates" \in _event_history[1].has

C40_RecordHoldsInstruction ==
    ( /\ turns_started >= 1
      /\ \/ phase = "loop"
         \/ phase = "exit" /\ ret \in {"win", "lose"} )
    => IF is_injection_turn
       THEN /\ "spoofed_targeting_instructions" \in ThisEvent.has
            /\ "targeting_instructions" \notin ThisEvent.has
       ELSE "targeting_instructions" \in ThisEvent.has

----------------------------------------------------------------------------
(* Properties of the sessions of the agents (SpecAgents) *)

\* a message of the session has this token in its content
Mentions(session, token) ==
    \E p \in 1..Len(session) :
        \E k \in 1..Len(session[p].content) : session[p].content[k] = token

ReplayedKeys ==
    {"targeting_instructions", "spoofed_targeting_instructions", "fired_coordinates",
     "lore_belief"}

\* C32: at the start of turn n > 1 the session of the eavesdropper holds,
\* between the rules and the board of the present, the replay of turns 1 to
\* n-1 in chronological order: nothing of a later turn stands before
\* anything of an earlier turn, and of every replayed turn the instruction,
\* the forged message, the outcome (fired or pass) and the belief notes are
\* there when the record holds them, and nothing else.
C32_ReplayChronological ==
    (phase = "instructions" /\ turns_started > 1)
    => LET n == turns_started
           body == SubSeq(_convo, 3, Len(_convo) - 1)
       IN  /\ Len(_convo) >= 3
           /\ _convo[1] = AMsg("system", <<"RULES">>, n)
           /\ _convo[2] = AMsg("system", <<"REPLAY">>, n)
           /\ _convo[Len(_convo)] = AMsg("system", <<"PRESENT", "BOARD">>, n)
           /\ \A p \in 1..Len(body) : body[p].turn \in 1..(n - 1)
           /\ \A p, q \in 1..Len(body) : p < q => body[p].turn <= body[q].turn
           /\ \A i \in 1..(n - 1) :
                 LET e == _event_history[i]
                     of_i == SelectSeq(body, LAMBDA m : m.turn = i)
                     there(role, content) ==
                         \E p \in 1..Len(of_i) :
                             of_i[p].role = role /\ of_i[p].content = content
                 IN  /\ Len(of_i) = Cardinality(e.has \cap ReplayedKeys)
                     /\ "targeting_instructions" \in e.has
                           => there("user", <<e.targeting_instructions>>)
                     /\ "spoofed_targeting_instructions" \in e.has
                           => there("assistant",
                                    <<"We then injected", e.spoofed_targeting_instructions,
                                      "Rationale", e.spoof_explanation>>)
                     /\ "fired_coordinates" \in e.has
                           => there("system",
                                    IF e.fired_coordinates.none THEN <<"chose to PASS">>
                                    ELSE <<"fired at position", "A", "1">>)
                     /\ "lore_belief" \in e.has
                           => there("assistant", <<e.lore_belief>>)

\* the third turn starts after a genuine turn that fired and an injection
\* turn that ended with a pass
C32_Witness ==
    /\ phase = "instructions" /\ turns_started = 3
    /\ {"targeting_instructions", "fired_coordinates", "lore_belief"}
          \subseteq _event_history[1].has
    /\ ~_event_history[1].fired_coordinates.none
    /\ {"spoofed_targeting_instructions", "fired_coordinates"}
          \subseteq _event_history[2].has
    /\ _event_history[2].fired_coordinates.none

\* C33: the receiver is stateless across turns: while it decodes, every
\* message of its session was written in the current turn, none in an
\* earlier one, and the session starts from the rules, the lore context and
\* the instruction alone, so that two turns with the same lore context and
\* instruction start from the same content.
C33_ReceiverStateless ==
    phase \in {"spoofcheck", "decision"}
    => /\ \A p \in 1..Len(ally_convo) : ally_convo[p].turn = turns_started
       /\ Len(ally_convo) >= 5
       /\ [p \in 1..5 |-> <<ally_convo[p].role, ally_convo[p].content>>]
             = << <<"system", <<"RULES", "8x8">>>>,
                  <<"system", <<"LORE CONTEXT", lore_context>>>>,
                  <<"user", <<"A new message", targeting_instructions>>>>,
                  <<"system", <<"DECODE">>>>,
                  <<"assistant", <<"reasoning", lore_context>>>> >>
       /\ phase = "spoofcheck" => Len(ally_convo) = 5

\* the third turn gives the receiver the instruction of the first turn again
C33_Witness ==
    /\ phase = "spoofcheck" /\ turns_started = 3
    /\ "targeting_instructions" \in _event_history[1].has
    /\ targeting_instructions = _event_history[1].targeting_instructions
    /\ Len(ally_convo) = 5

\* C34: the lore context enters no session but the receiver's: the session
\* of every spoof-check task starts with the rules and the instruction text
\* and nothing else, no message of any task mentions the lore context, and
\* no message of the eavesdropper's session does.
C34_LoreContextConfined ==
    phase \notin {"setup"}
    => /\ ~Mentions(_convo, lore_context)
       /\ \A w \in JudgeSet :
             /\ ~Mentions(executor[w].convo, lore_context)
             /\ (phase \in {"spoofcheck", "decision"} /\ executor[w].pc # "queued")
                   => /\ Len(executor[w].convo) >= 2
                      /\ executor[w].convo[1].role = "system"
                      /\ executor[w].convo[1].content = <<"RULES", "ROWS", "COLS">>
                      /\ executor[w].convo[2].role = "user"
                      /\ executor[w].convo[2].content
                            = <<"Here is the message", targeting_instructions>>
                      /\ \A p \in 3..Len(executor[w].convo) :
                            executor[w].convo[p].role \in {"developer", "assistant"}

\* the receiver's session holds the lore context while the three tasks have
\* finished and the eavesdropper's session holds a replay
C34_Witness ==
    /\ phase = "decision" /\ turns_started = 2
    /\ Mentions(ally_convo, lore_context)
    /\ \A w \in JudgeSet : executor[w].pc = "done"
    /\ Len(_convo) > 3

\* C35: the spoof-check report exists only when the three tasks have
\* finished; it is the lore, coordinate and arithmetic sections in that
\* order whatever the order in which the tasks finished; and a step of a
\* task changes the session and the result of that task only.
C35_ReportAfterJoin ==
    [][ /\ spoof_analysis' # <<>>
           => /\ \A w \in JudgeSet : executor'[w].pc = "done"
              /\ spoof_analysis' =
                    <<"LORE LEAKAGE ANALYSIS:">> \o executor'["lore_leakage"].retval
                    \o <<"TARGET COORDINATES ANALYSIS:">>
                    \o executor'["target_coordinates"].retval
                    \o <<"RELATIVE OFFSETS ANALYSIS:">>
                    \o executor'["relative_offsets"].retval
        /\ (phase = "spoofcheck" /\ phase' = "spoofcheck")
           => /\ Cardinality({w \in JudgeSet : executor'[w] # executor[w]}) = 1
              /\ UNCHANGED <<ally_convo, _convo, spoof_analysis, targeting_instructions,
                             _event_history>>
              /\ \A w \in JudgeSet :
                    \A p \in 3..Len(executor'[w].convo) :
                        executor'[w].convo[p].content[1] \in {"QUESTION", "discussion", "json"}
                        /\ (executor'[w].convo[p].content[1] # "json"
                               => executor'[w].convo[p].content[2] = w)
      ]_vars

\* the report of three tasks that finished in the reverse of the order in
\* which they were submitted, with results that differ
C35_Witness ==
    /\ spoof_analysis # <<>>
    /\ completed = <<"relative_offsets", "target_coordinates", "lore_leakage">>
    /\ executor["lore_leakage"].retval[2] # executor["relative_offsets"].retval[2]

====
